---- MODULE Spec2Model ----
(***************************************************************************)
(* Model of the cloud-url-shortener storage core.                          *)
(*                                                                         *)
(* ShortURLRedisDAO (src/cloudshortener/dao/redis/short_url_redis_dao.py)  *)
(* is modelled as a set of client processes that issue round trips to one  *)
(* Redis store.  Every round trip (a single command, or one MULTI/EXEC     *)
(* pipeline) is one atomic step; the steps of different clients interleave *)
(* freely, and the wall clock may advance between any two steps.           *)
(*                                                                         *)
(* Stored integers are kept as integers (the wire encoding of the client   *)
(* library is not part of the model).  The process clock is UTC.           *)
(*                                                                         *)
(* Three specifications share the variables:                               *)
(*   Spec          ShortURLRedisDAO insert / get / hit                     *)
(*   SpecCounters  ShortURLRedisDAO.count and UserRedisDAO                 *)
(*                 (src/cloudshortener/dao/redis/user_redis_dao.py)        *)
(*   SpecCache     AppConfigCacheDAO                                       *)
(*                 (src/backend/cloudshortener/dao/cache/                  *)
(*                  appconfig_cache_dao.py)                                *)
(***************************************************************************)
EXTENDS Integers, Sequences, FiniteSets, TLC

VARIABLES
    now,        \* wall clock, Unix seconds (UTC)
    db,         \* the Redis keyspace: key string -> [val, exp]
    pc,         \* per client: position inside the DAO method it is running
    loc,        \* per client: locals of the running DAO method
    nops,       \* DAO calls started so far
    nticks,     \* clock advances so far
    hist,       \* history: the last HistLen steps, newest last
    lastHit,    \* history: hits key -> value returned by the last hit() on it
    urlBatch,   \* history: url key -> hits key written in the same insert batch
    deployed    \* AWS AppConfig: number of the newest deployed configuration version

vars == <<now, db, pc, loc, nops, nticks, hist, lastHit, urlBatch, deployed>>

----------------------------------------------------------------------------
(* Bounds of the model *)

MaxOps == 3
MaxTicks == 2
HistLen == 3

Procs == {"lambda1", "lambda2"}
Shortcodes == {"abc123"}
Targets == {"https://example.com/test", "https://example.com/duplicate"}

----------------------------------------------------------------------------
(* Program constants: src/cloudshortener/utils/constants.py *)

ONE_YEAR_SECONDS == 31536000
ONE_MONTH_SECONDS == 2592000
DEFAULT_LINK_HITS_QUOTA == 10000

----------------------------------------------------------------------------
(* Optional values: None is the empty tuple, a present value a 1-tuple *)

Nil == <<>>
Some(v) == <<v>>

----------------------------------------------------------------------------
(* Calendar arithmetic of datetime (proleptic Gregorian, UTC) *)

SecondsPerDay == 24 * 60 * 60

IsLeap(y) == (y % 4 = 0 /\ y % 100 # 0) \/ y % 400 = 0

DaysInMonth(y, m) ==
    IF m = 2 THEN (IF IsLeap(y) THEN 29 ELSE 28)
    ELSE IF m \in {4, 6, 9, 11} THEN 30 ELSE 31

\* days from 1970-01-01 to y-01-01
DaysBeforeYear(y) ==
    365 * (y - 1970)
    + ((y - 1) \div 4 - 1969 \div 4)
    - ((y - 1) \div 100 - 1969 \div 100)
    + ((y - 1) \div 400 - 1969 \div 400)

RECURSIVE DaysBeforeMonth(_, _)
DaysBeforeMonth(y, m) ==
    IF m = 1 THEN 0 ELSE DaysBeforeMonth(y, m - 1) + DaysInMonth(y, m - 1)

\* datetime(y, m, 1, 0, 0, 0, tzinfo=UTC).timestamp(); m = 13 is January of y+1
MonthStart(y, m) ==
    IF m = 13 THEN DaysBeforeYear(y + 1) * SecondsPerDay
    ELSE (DaysBeforeYear(y) + DaysBeforeMonth(y, m)) * SecondsPerDay

Pad2(n) == IF n < 10 THEN "0" \o ToString(n) ELSE ToString(n)

\* the calendar window of the model, tabulated once
CalendarYears == 2024..2030

MonthStartTable == [y \in CalendarYears |-> [m \in 1..13 |-> MonthStart(y, m)]]

\* strftime('%Y-%m')
MonthNameTable == [y \in CalendarYears |-> [m \in 1..12 |-> ToString(y) \o "-" \o Pad2(m)]]

YearOf(t) ==
    CHOOSE y \in CalendarYears : MonthStartTable[y][1] <= t /\ t < MonthStartTable[y][13]

MonthOf(t) ==
    LET y == YearOf(t)
    IN  CHOOSE m \in 1..12 : MonthStartTable[y][m] <= t /\ t < MonthStartTable[y][m + 1]

\* date.today().strftime('%Y-%m')
this_month(t) == MonthNameTable[YearOf(t)][MonthOf(t)]

\* utils.helpers.beginning_of_next_month, as a Unix timestamp
beginning_of_next_month(t) ==
    LET month == MonthOf(t)
        year == YearOf(t)
        next_month == (month % 12) + 1
        next_year == year + (IF month = 12 THEN 1 ELSE 0)
    IN  MonthStartTable[next_year][next_month]

----------------------------------------------------------------------------
(* RedisKeySchema *)

prefix == Some("testapp:test")

prefix_key(key) == IF prefix # Nil THEN prefix[1] \o ":" \o key ELSE key

link_url_key(short_code) == prefix_key("links:" \o short_code \o ":url")

link_hits_key(short_code, t) ==
    prefix_key("links:" \o short_code \o ":hits:" \o this_month(t))

----------------------------------------------------------------------------
(* The Redis commands the DAO issues, on a keyspace d at server time t *)

NoExpiry == -1

RedisExists(d, k) == k \in DOMAIN d

Put(d, k, v, e) == [x \in DOMAIN d \cup {k} |-> IF x = k THEN [val |-> v, exp |-> e] ELSE d[x]]

\* SET k v EX seconds
RedisSetEx(d, k, v, seconds, t) == Put(d, k, v, t + seconds)

\* SET k v NX EXAT timestamp
RedisSetNxExat(d, k, v, exat) == IF RedisExists(d, k) THEN d ELSE Put(d, k, v, exat)

\* DECR k (a missing key counts as 0 and is created without expiry)
RedisDecr(d, k) ==
    IF RedisExists(d, k) THEN Put(d, k, d[k].val - 1, d[k].exp) ELSE Put(d, k, -1, NoExpiry)

\* GET k
RedisGet(d, k) == IF RedisExists(d, k) THEN Some(d[k].val) ELSE Nil

\* TTL k
RedisTtl(d, k, t) ==
    IF ~RedisExists(d, k) THEN -2 ELSE IF d[k].exp = NoExpiry THEN -1 ELSE d[k].exp - t

\* keys whose expiry time has been reached are gone
Unexpired(d, t) ==
    [k \in {x \in DOMAIN d : d[x].exp = NoExpiry \/ d[x].exp > t} |-> d[k]]

----------------------------------------------------------------------------
(* History bookkeeping *)

NoLocals == [shortcode |-> "", target |-> "", link_url_key |-> "", link_hits_key |-> ""]

\* one step of one client (or of the clock), with the keyspace it found
Event(op, p, shortcode, hits_key, res) ==
    [op |-> op, proc |-> p, shortcode |-> shortcode, hits_key |-> hits_key,
     at |-> now, before |-> db, res |-> res]

Push(h, e) == IF Len(h) < HistLen THEN Append(h, e) ELSE Append(Tail(h), e)

Restrict(f, S) == [k \in DOMAIN f \cap S |-> f[k]]

Extend(f, k, v) == [x \in DOMAIN f \cup {k} |-> IF x = k THEN v ELSE f[x]]

----------------------------------------------------------------------------
(* Initial states: the clock at a mid-month instant or one second before a *)
(* year boundary; the keyspace empty, or holding a link about to expire,   *)
(* or a link whose monthly quota is nearly used up.                        *)

StartTimes == {MonthStart(2025, 10) + 14 * SecondsPerDay, MonthStart(2026, 1) - 1}

EmptyStore == [k \in {} |-> [val |-> 0, exp |-> 0]]

EmptyGhost == [k \in {} |-> ""]

InitStores(t) ==
    LET sc == CHOOSE s \in Shortcodes : TRUE
        tg == CHOOSE g \in Targets : TRUE
        uk == link_url_key(sc)
        hk == link_hits_key(sc, t)
    IN  { \* nothing stored yet
          [db |-> EmptyStore, lastHit |-> [k \in {} |-> 0], urlBatch |-> EmptyGhost],
          \* inserted one year minus one second ago, not hit this month
          [db |-> Put(EmptyStore, uk, tg, t + 1),
           lastHit |-> [k \in {} |-> 0],
           urlBatch |-> Extend(EmptyGhost, uk, link_hits_key(sc, t + 1 - ONE_YEAR_SECONDS))],
          \* inserted a second ago and hit DEFAULT_LINK_HITS_QUOTA - 1 times since
          [db |-> Put(Put(EmptyStore, uk, tg, t - 1 + ONE_YEAR_SECONDS),
                      hk, 1, beginning_of_next_month(t)),
           lastHit |-> Extend([k \in {} |-> 0], hk, 1),
           urlBatch |-> Extend(EmptyGhost, uk, hk)] }

Init ==
    /\ now \in StartTimes
    /\ \E s \in InitStores(now) :
        /\ db = s.db
        /\ lastHit = s.lastHit
        /\ urlBatch = s.urlBatch
    /\ pc = [p \in Procs |-> "idle"]
    /\ loc = [p \in Procs |-> NoLocals]
    /\ nops = 0
    /\ nticks = 0
    /\ hist = <<>>
    /\ deployed = 1

----------------------------------------------------------------------------
(* ShortURLRedisDAO.insert *)

\* variant: the guard looks at the hits key instead of the url key
insert_already_exists_hits(d, url_key, hits_key) == RedisExists(d, hits_key)

\* line 140: if self.redis.exists(link_url_key): raise
insert_already_exists(d, url_key, hits_key) == RedisExists(d, url_key)

\* variant: the url key is written without ex=ONE_YEAR_SECONDS
insert_batch_no_ex(d, l, t) ==
    LET d1 == Put(d, l.link_url_key, l.target, NoExpiry)
    IN  RedisSetNxExat(d1, l.link_hits_key, DEFAULT_LINK_HITS_QUOTA,
                       beginning_of_next_month(t))

\* variant: the batch writes the url key only, the quota key is forgotten
insert_batch_url_only(d, l, t) ==
    RedisSetEx(d, l.link_url_key, l.target, ONE_YEAR_SECONDS, t)

\* lines 157-165: MULTI; SET url target EX; SET hits quota NX EXAT; EXEC
\* variant: the hits key is SET without NX
insert_batch_reset_hits(d, l, t) ==
    LET d1 == RedisSetEx(d, l.link_url_key, l.target, ONE_YEAR_SECONDS, t)
    IN  Put(d1, l.link_hits_key, DEFAULT_LINK_HITS_QUOTA, beginning_of_next_month(t))

insert_batch(d, l, t) ==
    LET d1 == RedisSetEx(d, l.link_url_key, l.target, ONE_YEAR_SECONDS, t)
    IN  RedisSetNxExat(d1, l.link_hits_key, DEFAULT_LINK_HITS_QUOTA,
                       beginning_of_next_month(t))

\* lines 138-141: compute the keys, EXISTS url, raise if present
insert_exists(p, shortcode, target) ==
    /\ pc[p] = "idle"
    /\ nops < MaxOps
    /\ nops' = nops + 1
    /\ LET url_key == link_url_key(shortcode)
           hits_key == link_hits_key(shortcode, now)
       IN  IF insert_already_exists(db, url_key, hits_key)
           THEN /\ hist' = Push(hist, Event("insert_exists", p, shortcode, hits_key,
                                            [kind |-> "ShortURLAlreadyExistsError"]))
                /\ UNCHANGED <<pc, loc>>
           ELSE /\ hist' = Push(hist, Event("insert_exists", p, shortcode, hits_key,
                                            [kind |-> "pending", target |-> target]))
                /\ pc' = [pc EXCEPT ![p] = "insert_pipeline"]
                /\ loc' = [loc EXCEPT ![p] = [shortcode |-> shortcode, target |-> target,
                                              link_url_key |-> url_key,
                                              link_hits_key |-> hits_key]]
    /\ UNCHANGED <<now, db, nticks, lastHit, urlBatch, deployed>>

\* lines 157-166: the pipeline executes, insert returns self
insert_pipeline(p) ==
    /\ pc[p] = "insert_pipeline"
    /\ LET l == loc[p]
       IN  /\ db' = insert_batch(db, l, now)
           /\ urlBatch' = Extend(urlBatch, l.link_url_key, l.link_hits_key)
           /\ hist' = Push(hist, Event("insert_pipeline", p, l.shortcode, l.link_hits_key,
                                       [kind |-> "ok", target |-> l.target]))
    /\ pc' = [pc EXCEPT ![p] = "idle"]
    /\ loc' = [loc EXCEPT ![p] = NoLocals]
    /\ UNCHANGED <<now, nops, nticks, lastHit, deployed>>

----------------------------------------------------------------------------
(* ShortURLRedisDAO.get *)

\* variant: a link without a quota key is reported as missing
get_not_found_or_no_hits(original_url, hits) == original_url = Nil \/ hits = Nil

\* lines 209-210: if original_url is None: raise
get_not_found(original_url, hits) == original_url = Nil

\* variant: the expiry is computed from the nominal TTL, not from the TTL read
get_expires_at_nominal(t, ttl) == t + ONE_YEAR_SECONDS

\* line 216: expires_at = datetime.now(UTC) + timedelta(seconds=ttl)
get_expires_at(t, ttl) == t + ttl

\* lines 197-217: MULTI; GET url; GET hits; TTL url; EXEC
get(p, shortcode) ==
    /\ pc[p] = "idle"
    /\ nops < MaxOps
    /\ nops' = nops + 1
    /\ LET url_key == link_url_key(shortcode)
           hits_key == link_hits_key(shortcode, now)
           original_url == RedisGet(db, url_key)
           hits == RedisGet(db, hits_key)
           ttl == RedisTtl(db, url_key, now)
       IN  IF get_not_found(original_url, hits)
           THEN hist' = Push(hist, Event("get", p, shortcode, hits_key,
                                         [kind |-> "ShortURLNotFoundError"]))
           ELSE hist' = Push(hist, Event("get", p, shortcode, hits_key,
                                         [kind |-> "ok", target |-> original_url[1],
                                          hits |-> hits,
                                          expires_at |-> get_expires_at(now, ttl)]))
    /\ UNCHANGED <<now, db, pc, loc, nticks, lastHit, urlBatch, deployed>>

----------------------------------------------------------------------------
(* ShortURLRedisDAO.hit *)

\* variant: the guard is left out, every hit goes on to its batch
hit_not_found_never(d, url_key, hits_key) == FALSE

\* line 257: if not self.redis.exists(link_url_key): raise
hit_not_found(d, url_key, hits_key) == ~RedisExists(d, url_key)

\* variant: the quota key lives for ONE_MONTH_SECONDS instead of until the month ends
hit_batch_ex_month(d, hits_key, t) ==
    LET d1 == IF RedisExists(d, hits_key) THEN d
              ELSE RedisSetEx(d, hits_key, DEFAULT_LINK_HITS_QUOTA, ONE_MONTH_SECONDS, t)
    IN  RedisDecr(d1, hits_key)

\* variant: the quota key is written without nx=True
hit_batch_no_nx(d, hits_key, t) ==
    LET d1 == Put(d, hits_key, DEFAULT_LINK_HITS_QUOTA, beginning_of_next_month(t))
    IN  RedisDecr(d1, hits_key)

\* variant: the batch decrements before it initializes
hit_batch_decr_first(d, hits_key, t) ==
    RedisSetNxExat(RedisDecr(d, hits_key), hits_key, DEFAULT_LINK_HITS_QUOTA,
                   beginning_of_next_month(t))

\* variant: the batch reads the counter back where it should decrement it
hit_batch_no_decr(d, hits_key, t) ==
    LET d1 == RedisSetNxExat(d, hits_key, DEFAULT_LINK_HITS_QUOTA,
                             beginning_of_next_month(t))
    IN  IF RedisExists(d, hits_key) THEN d1 ELSE RedisDecr(d1, hits_key)

\* lines 282-290: MULTI; SET hits quota NX EXAT; DECR hits; EXEC
\* variant: a used-up quota is refilled by the SET
hit_batch_refill(d, hits_key, t) ==
    LET d1 == IF RedisExists(d, hits_key) /\ d[hits_key].val > 0
              THEN d
              ELSE Put(d, hits_key, DEFAULT_LINK_HITS_QUOTA, beginning_of_next_month(t))
    IN  RedisDecr(d1, hits_key)

hit_batch(d, hits_key, t) ==
    LET d1 == RedisSetNxExat(d, hits_key, DEFAULT_LINK_HITS_QUOTA,
                             beginning_of_next_month(t))
    IN  RedisDecr(d1, hits_key)

\* lines 254-258: compute the keys, EXISTS url, raise if absent
hit_exists(p, shortcode) ==
    /\ pc[p] = "idle"
    /\ nops < MaxOps
    /\ nops' = nops + 1
    /\ LET url_key == link_url_key(shortcode)
           hits_key == link_hits_key(shortcode, now)
       IN  IF hit_not_found(db, url_key, hits_key)
           THEN /\ hist' = Push(hist, Event("hit_exists", p, shortcode, hits_key,
                                            [kind |-> "ShortURLNotFoundError"]))
                /\ UNCHANGED <<pc, loc>>
           ELSE /\ hist' = Push(hist, Event("hit_exists", p, shortcode, hits_key,
                                            [kind |-> "pending"]))
                /\ pc' = [pc EXCEPT ![p] = "hit_pipeline"]
                /\ loc' = [loc EXCEPT ![p] = [shortcode |-> shortcode, target |-> "",
                                              link_url_key |-> url_key,
                                              link_hits_key |-> hits_key]]
    /\ UNCHANGED <<now, db, nticks, lastHit, urlBatch, deployed>>

\* lines 282-292: the pipeline executes, hit returns the DECR reply
hit_pipeline(p) ==
    /\ pc[p] = "hit_pipeline"
    /\ LET l == loc[p]
           d2 == hit_batch(db, l.link_hits_key, now)
           leftover_hits == d2[l.link_hits_key].val
       IN  /\ db' = d2
           /\ lastHit' = Extend(lastHit, l.link_hits_key, leftover_hits)
           /\ hist' = Push(hist, Event("hit_pipeline", p, l.shortcode, l.link_hits_key,
                                       [kind |-> "ok", leftover_hits |-> leftover_hits,
                                        previous |-> IF l.link_hits_key \in DOMAIN lastHit
                                                     THEN Some(lastHit[l.link_hits_key])
                                                     ELSE Nil]))
    /\ pc' = [pc EXCEPT ![p] = "idle"]
    /\ loc' = [loc EXCEPT ![p] = NoLocals]
    /\ UNCHANGED <<now, nops, nticks, urlBatch, deployed>>

----------------------------------------------------------------------------
(* The clock: it moves by one second, to the next month, or to the moment  *)
(* a stored key expires; keys whose time has come disappear.               *)

JumpTargets ==
    {now + 1, beginning_of_next_month(now)}
        \cup {db[k].exp : k \in {x \in DOMAIN db : db[x].exp > now}}

Tick(t) ==
    /\ nticks < MaxTicks
    /\ t \in JumpTargets
    /\ now' = t
    /\ nticks' = nticks + 1
    /\ db' = Unexpired(db, t)
    /\ lastHit' = Restrict(lastHit, DOMAIN db')
    /\ urlBatch' = Restrict(urlBatch, DOMAIN db')
    /\ hist' = Push(hist, Event("tick", "clock", "", "", [kind |-> "ok"]))
    /\ UNCHANGED <<pc, loc, nops, deployed>>

----------------------------------------------------------------------------

Next ==
    \/ \E p \in Procs, shortcode \in Shortcodes, target \in Targets :
            insert_exists(p, shortcode, target)
    \/ \E p \in Procs : insert_pipeline(p)
    \/ \E p \in Procs, shortcode \in Shortcodes : get(p, shortcode)
    \/ \E p \in Procs, shortcode \in Shortcodes : hit_exists(p, shortcode)
    \/ \E p \in Procs : hit_pipeline(p)
    \/ \E t \in JumpTargets : Tick(t)

Spec == Init /\ [][Next]_vars

----------------------------------------------------------------------------
(* Reading the history: Ago(0) is the step just taken, Ago(1) the one      *)
(* before it, Ago(2) the one before that.                                  *)

Took(n) == Len(hist) >= n

Ago(k) == hist[Len(hist) - k]

\* the steps Ago(1), Ago(0) are one uninterrupted call of `first` then `second`
\* by the same client on the same shortcode
RanAlone(first, second, k) ==
    /\ Took(k + 2)
    /\ Ago(k + 1).op = first
    /\ Ago(k).op = second
    /\ Ago(k + 1).proc = Ago(k).proc
    /\ Ago(k + 1).shortcode = Ago(k).shortcode
    /\ Ago(k + 1).res.kind = "pending"

----------------------------------------------------------------------------
(* C1: when insert runs on a shortcode whose url key and current-month     *)
(* hits key are both absent and succeeds, a get of that shortcode that     *)
(* follows with nothing in between returns the inserted target, hits equal *)
(* to DEFAULT_LINK_HITS_QUOTA and an expiry one year (ONE_YEAR_SECONDS)    *)
(* ahead.                                                                  *)

C1_Case ==
    /\ RanAlone("insert_exists", "insert_pipeline", 1)
    /\ Ago(0).op = "get"
    /\ Ago(0).shortcode = Ago(1).shortcode
    /\ ~RedisExists(Ago(2).before, link_url_key(Ago(2).shortcode))
    /\ ~RedisExists(Ago(2).before, link_hits_key(Ago(2).shortcode, Ago(2).at))

C1_InsertThenGet ==
    C1_Case =>
        /\ Ago(0).res.kind = "ok"
        /\ Ago(0).res.target = Ago(2).res.target
        /\ Ago(0).res.hits = Some(DEFAULT_LINK_HITS_QUOTA)
        /\ Ago(0).res.expires_at = Ago(0).at + ONE_YEAR_SECONDS

C1_Witness == C1_Case /\ Ago(0).res.kind = "ok" /\ Ago(0).res.hits = Some(10000)

----------------------------------------------------------------------------
(* C2: insert on a shortcode whose url key exists raises                   *)
(* ShortURLAlreadyExistsError and leaves the keyspace as it found it       *)
(* (target, url TTL, hits value and hits expiry), with no batch pending.   *)

C2_Case ==
    /\ Took(1)
    /\ Ago(0).op = "insert_exists"
    /\ RedisExists(Ago(0).before, link_url_key(Ago(0).shortcode))

C2_InsertExistingRaises ==
    C2_Case =>
        /\ Ago(0).res.kind = "ShortURLAlreadyExistsError"
        /\ db = Ago(0).before
        /\ pc[Ago(0).proc] = "idle"

C2_Witness ==
    /\ C2_Case
    /\ Ago(0).res.kind = "ShortURLAlreadyExistsError"
    /\ RedisExists(db, Ago(0).hits_key)

----------------------------------------------------------------------------
(* C3: a hit whose batch finds the current-month hits key absent creates   *)
(* it with DEFAULT_LINK_HITS_QUOTA and an expiry at the first instant of   *)
(* the next calendar month (UTC), decrements it once and returns           *)
(* DEFAULT_LINK_HITS_QUOTA - 1.                                            *)

C3_Case ==
    /\ Took(1)
    /\ Ago(0).op = "hit_pipeline"
    /\ Ago(0).hits_key = link_hits_key(Ago(0).shortcode, Ago(0).at)
    /\ ~RedisExists(Ago(0).before, Ago(0).hits_key)

C3_HitInitializesQuota ==
    C3_Case =>
        /\ RedisExists(db, Ago(0).hits_key)
        /\ db[Ago(0).hits_key].val = DEFAULT_LINK_HITS_QUOTA - 1
        /\ db[Ago(0).hits_key].exp
             = MonthStart(YearOf(Ago(0).at) + (IF MonthOf(Ago(0).at) = 12 THEN 1 ELSE 0),
                          IF MonthOf(Ago(0).at) = 12 THEN 1 ELSE MonthOf(Ago(0).at) + 1)
        /\ Ago(0).res.leftover_hits = DEFAULT_LINK_HITS_QUOTA - 1

\* the same case with the call running alone, one second before a new year
C3_Witness ==
    /\ C3_Case
    /\ RanAlone("hit_exists", "hit_pipeline", 0)
    /\ MonthOf(Ago(0).at) = 12
    /\ db[Ago(0).hits_key].val = 9999

----------------------------------------------------------------------------
(* C4: while a hits key lives, every hit on it returns exactly one less    *)
(* than the hit before it returned; the value may go below zero and hit    *)
(* still returns it instead of raising.                                    *)

C4_Case ==
    /\ Took(1)
    /\ Ago(0).op = "hit_pipeline"
    /\ Ago(0).res.previous # Nil

C4_HitsDecreaseByOne ==
    (Took(1) /\ Ago(0).op = "hit_pipeline") =>
        /\ Ago(0).res.kind = "ok"
        /\ Ago(0).res.previous # Nil
             => Ago(0).res.leftover_hits = Ago(0).res.previous[1] - 1

C4_Witness == C4_Case /\ Ago(0).res.leftover_hits < 0 /\ Ago(0).res.kind = "ok"

----------------------------------------------------------------------------
(* C5: hit on a shortcode whose url key is absent raises                   *)
(* ShortURLNotFoundError and writes nothing: no hits key is created or     *)
(* decremented, and no batch is left pending.                              *)

C5_Case ==
    /\ Took(1)
    /\ Ago(0).op = "hit_exists"
    /\ ~RedisExists(Ago(0).before, link_url_key(Ago(0).shortcode))

C5_HitMissingRaises ==
    C5_Case =>
        /\ Ago(0).res.kind = "ShortURLNotFoundError"
        /\ db = Ago(0).before
        /\ pc[Ago(0).proc] = "idle"

\* the hits key of the month outlived the url key and is left as it was
C5_Witness ==
    /\ C5_Case
    /\ Ago(0).res.kind = "ShortURLNotFoundError"
    /\ RedisExists(db, Ago(0).hits_key)

----------------------------------------------------------------------------
(* C6: whenever a step brings a hits key into existence, the url key of    *)
(* the same shortcode exists at that instant.                              *)
(* Fails: hit checks the url key in one round trip and writes the hits key *)
(* in the next, and the url key can expire in between.                     *)

C6_HitsKeyCreatedOnlyWithUrl ==
    (/\ Took(1)
     /\ Ago(0).op \in {"insert_pipeline", "hit_pipeline"}
     /\ RedisExists(db, Ago(0).hits_key)
     /\ ~RedisExists(Ago(0).before, Ago(0).hits_key))
        => RedisExists(db, link_url_key(Ago(0).shortcode))

----------------------------------------------------------------------------
(* C7: a get never sees the url key of an insert batch without the hits    *)
(* key of that batch: when the url key it reads was written together with  *)
(* the hits key it reads, it returns a non-null hits value; otherwise it   *)
(* raises ShortURLNotFoundError or the link's quota key is another one.    *)

C7_Case ==
    /\ Took(1)
    /\ Ago(0).op = "get"
    /\ link_url_key(Ago(0).shortcode) \in DOMAIN urlBatch
    /\ urlBatch[link_url_key(Ago(0).shortcode)] = Ago(0).hits_key

C7_GetSeesWholeInsertBatch ==
    C7_Case => (Ago(0).res.kind = "ok" /\ Ago(0).res.hits # Nil)

\* the get of one client is served right after the batch of another client's
\* insert of a shortcode that was absent
C7_Witness ==
    /\ C7_Case
    /\ Took(2)
    /\ Ago(1).op = "insert_pipeline"
    /\ Ago(1).proc # Ago(0).proc
    /\ Ago(1).shortcode = Ago(0).shortcode
    /\ ~RedisExists(Ago(1).before, link_url_key(Ago(1).shortcode))
    /\ Ago(0).res.kind = "ok"
    /\ Ago(0).res.hits = Some(DEFAULT_LINK_HITS_QUOTA)

----------------------------------------------------------------------------
(* C8: while the url key of a shortcode is live its target never changes,  *)
(* and an insert that succeeds found the shortcode free (of concurrent     *)
(* inserts of one shortcode at most one succeeds).                         *)
(* Fails: two inserts can both pass EXISTS before either batch runs; the   *)
(* second batch then overwrites the target and restarts the TTL.           *)

C8_TargetImmutableWhileLive ==
    Took(1) =>
        /\ \A sc \in Shortcodes :
              (RedisExists(Ago(0).before, link_url_key(sc)) /\ RedisExists(db, link_url_key(sc)))
                  => db[link_url_key(sc)].val = Ago(0).before[link_url_key(sc)].val
        /\ Ago(0).op = "insert_pipeline"
              => ~RedisExists(Ago(0).before, link_url_key(Ago(0).shortcode))

----------------------------------------------------------------------------
(* C9: get raises ShortURLNotFoundError exactly when the url key is absent *)
(* from the keyspace its batch reads, whether or not a hits key exists;    *)
(* target, hits and expiry all come from that one keyspace; get leaves     *)
(* every key as it was.                                                    *)

C9_Case == Took(1) /\ Ago(0).op = "get"

C9_GetReadsOneSnapshot ==
    C9_Case =>
        LET g == Ago(0)
            url_key == link_url_key(g.shortcode)
            hits_key == link_hits_key(g.shortcode, g.at)
        IN  /\ db = g.before
            /\ (g.res.kind = "ShortURLNotFoundError") <=> ~RedisExists(g.before, url_key)
            /\ g.res.kind \in {"ShortURLNotFoundError", "ok"}
            /\ g.res.kind = "ok" =>
                  /\ g.res.target = g.before[url_key].val
                  /\ g.res.hits = (IF RedisExists(g.before, hits_key)
                                   THEN Some(g.before[hits_key].val) ELSE Nil)
                  /\ g.res.expires_at = g.before[url_key].exp

\* not found although the month's hits key is still there
C9_Witness ==
    /\ C9_Case
    /\ Ago(0).res.kind = "ShortURLNotFoundError"
    /\ RedisExists(db, Ago(0).hits_key)

----------------------------------------------------------------------------
(* C10: get on a shortcode whose url key exists and whose current-month    *)
(* hits key is absent succeeds and returns hits = None.                    *)

C10_Case ==
    /\ Took(1)
    /\ Ago(0).op = "get"
    /\ RedisExists(Ago(0).before, link_url_key(Ago(0).shortcode))
    /\ ~RedisExists(Ago(0).before, link_hits_key(Ago(0).shortcode, Ago(0).at))

C10_GetWithoutHitsKey ==
    C10_Case => (Ago(0).res.kind = "ok" /\ Ago(0).res.hits = Nil)

C10_Witness == C10_Case /\ Ago(0).res.kind = "ok" /\ Ago(0).res.hits = Nil

----------------------------------------------------------------------------
(* The Redis counters: ShortURLRedisDAO.count (one global link counter)    *)
(* and UserRedisDAO (one link-generation counter per user and month).      *)

Users == {"user123"}

counter_key == prefix_key("links:counter")

user_quota_key(user_id, t) ==
    prefix_key("users:" \o user_id \o ":quota:" \o this_month(t))

\* INCRBY k n (a missing key counts as 0 and is created without expiry)
RedisIncrBy(d, k, n) ==
    IF RedisExists(d, k) THEN Put(d, k, d[k].val + n, d[k].exp) ELSE Put(d, k, n, NoExpiry)

\* EXPIRE k seconds (no effect on a missing key)
RedisExpire(d, k, seconds, t) ==
    IF RedisExists(d, k) THEN Put(d, k, d[k].val, t + seconds) ELSE d

\* one step of one client on one key, with the keyspace it found
Call(op, p, key, res) ==
    [op |-> op, proc |-> p, key |-> key, at |-> now, before |-> db, res |-> res]

\* variant: the counter is read back without being advanced
count_incr_by_zero(d) == RedisIncrBy(d, counter_key, 0)

\* line 315: self.redis.incr(self.keys.counter_key())
count_incr(d) == RedisIncrBy(d, counter_key, 1)

\* lines 314-317: INCR counter, or GET counter
count(p, increment) ==
    /\ pc[p] = "idle"
    /\ nops < MaxOps
    /\ nops' = nops + 1
    /\ IF increment
       THEN /\ db' = count_incr(db)
            /\ hist' = Push(hist, Call("count", p, counter_key,
                                       [kind |-> "ok", increment |-> TRUE,
                                        value |-> Some(db'[counter_key].val)]))
       ELSE /\ db' = db
            /\ hist' = Push(hist, Call("count", p, counter_key,
                                       [kind |-> "ok", increment |-> FALSE,
                                        value |-> RedisGet(db, counter_key)]))
    /\ UNCHANGED <<now, pc, loc, nticks, lastHit, urlBatch, deployed>>

\* line 98: if monthly_quota == 0
quota_initializes(monthly_quota) == monthly_quota = 0

\* lines 96-98: INCRBY key 0, then decide whether the key is to be given an expiry
quota_incrby(p, user_id) ==
    /\ pc[p] = "idle"
    /\ nops < MaxOps
    /\ nops' = nops + 1
    /\ LET key == user_quota_key(user_id, now)
           d2 == RedisIncrBy(db, key, 0)
           monthly_quota == d2[key].val
       IN  /\ db' = d2
           /\ IF quota_initializes(monthly_quota)
              THEN /\ hist' = Push(hist, Call("quota_incrby", p, key,
                                              [kind |-> "pending",
                                               monthly_quota |-> monthly_quota]))
                   /\ pc' = [pc EXCEPT ![p] = "quota_expire"]
                   /\ loc' = [loc EXCEPT ![p] = [user_id |-> user_id,
                                                 user_quota_key |-> key,
                                                 monthly_quota |-> monthly_quota]]
              ELSE /\ hist' = Push(hist, Call("quota_incrby", p, key,
                                              [kind |-> "ok",
                                               monthly_quota |-> monthly_quota]))
                   /\ UNCHANGED <<pc, loc>>
    /\ UNCHANGED <<now, nticks, lastHit, urlBatch, deployed>>

\* lines 99-100: EXPIRE key ONE_MONTH_SECONDS, quota returns monthly_quota
quota_expire(p) ==
    /\ pc[p] = "quota_expire"
    /\ LET l == loc[p]
       IN  /\ db' = RedisExpire(db, l.user_quota_key, ONE_MONTH_SECONDS, now)
           /\ hist' = Push(hist, Call("quota_expire", p, l.user_quota_key,
                                      [kind |-> "ok", monthly_quota |-> l.monthly_quota]))
    /\ pc' = [pc EXCEPT ![p] = "idle"]
    /\ loc' = [loc EXCEPT ![p] = NoLocals]
    /\ UNCHANGED <<now, nops, nticks, lastHit, urlBatch, deployed>>

\* variant: the guard is left out, every call goes on to INCR
increment_quota_missing_never(d, key) == FALSE

\* line 131: if not self.redis.exists(user_quota_key): raise
increment_quota_missing(d, key) == ~RedisExists(d, key)

\* lines 130-132: compute the key, EXISTS key, raise if absent
increment_quota_exists(p, user_id) ==
    /\ pc[p] = "idle"
    /\ nops < MaxOps
    /\ nops' = nops + 1
    /\ LET key == user_quota_key(user_id, now)
       IN  IF increment_quota_missing(db, key)
           THEN /\ hist' = Push(hist, Call("increment_quota_exists", p, key,
                                           [kind |-> "UserDoesNotExistError"]))
                /\ UNCHANGED <<pc, loc>>
           ELSE /\ hist' = Push(hist, Call("increment_quota_exists", p, key,
                                           [kind |-> "pending"]))
                /\ pc' = [pc EXCEPT ![p] = "increment_quota_incr"]
                /\ loc' = [loc EXCEPT ![p] = [user_id |-> user_id,
                                              user_quota_key |-> key]]
    /\ UNCHANGED <<now, db, nticks, lastHit, urlBatch, deployed>>

\* line 133: return self.redis.incr(user_quota_key)
increment_quota_incr(p) ==
    /\ pc[p] = "increment_quota_incr"
    /\ LET l == loc[p]
           d2 == RedisIncrBy(db, l.user_quota_key, 1)
       IN  /\ db' = d2
           /\ hist' = Push(hist, Call("increment_quota_incr", p, l.user_quota_key,
                                      [kind |-> "ok",
                                       value |-> d2[l.user_quota_key].val]))
    /\ pc' = [pc EXCEPT ![p] = "idle"]
    /\ loc' = [loc EXCEPT ![p] = NoLocals]
    /\ UNCHANGED <<now, nops, nticks, lastHit, urlBatch, deployed>>

\* Initial keyspaces: nothing stored; or links already counted and a user
\* whose quota of the month was read once (counter 0, expiry armed a second
\* ago); or a user who has generated links this month.
InitCounterStores(t) ==
    LET uk == user_quota_key(CHOOSE u \in Users : TRUE, t)
    IN  { EmptyStore,
          Put(Put(EmptyStore, counter_key, 41, NoExpiry),
              uk, 0, t - 1 + ONE_MONTH_SECONDS),
          Put(Put(EmptyStore, counter_key, 41, NoExpiry),
              uk, 19, t + 1) }

InitCounters ==
    /\ now \in StartTimes
    /\ db \in InitCounterStores(now)
    /\ lastHit = [k \in {} |-> 0]
    /\ urlBatch = EmptyGhost
    /\ pc = [p \in Procs |-> "idle"]
    /\ loc = [p \in Procs |-> NoLocals]
    /\ nops = 0
    /\ nticks = 0
    /\ hist = <<>>
    /\ deployed = 1

NextCounters ==
    \/ \E p \in Procs, increment \in BOOLEAN : count(p, increment)
    \/ \E p \in Procs, user_id \in Users : quota_incrby(p, user_id)
    \/ \E p \in Procs : quota_expire(p)
    \/ \E p \in Procs, user_id \in Users : increment_quota_exists(p, user_id)
    \/ \E p \in Procs : increment_quota_incr(p)
    \/ \E t \in JumpTargets : Tick(t)

SpecCounters == InitCounters /\ [][NextCounters]_vars

----------------------------------------------------------------------------
(* C11: count(increment=True) advances the global counter by one in a      *)
(* single step and returns the new value: the value returned is one more   *)
(* than the counter found, it differs from (is greater than) every value   *)
(* returned by an earlier incrementing count, and no step of any client or *)
(* of the clock makes the counter smaller; count(increment=False) returns  *)
(* the value found and leaves the keyspace as it was.                      *)

Counter(d) == IF RedisExists(d, counter_key) THEN d[counter_key].val ELSE 0

C11_Case == Took(1) /\ Ago(0).op = "count"

C11_CountIsAtomicIncrement ==
    /\ (C11_Case /\ Ago(0).res.increment) =>
        /\ Ago(0).res.value = Some(Counter(Ago(0).before) + 1)
        /\ Counter(db) = Counter(Ago(0).before) + 1
        /\ \A k \in 1..(Len(hist) - 1) :
              (Ago(k).op = "count" /\ Ago(k).res.increment) =>
                  Ago(k).res.value[1] < Ago(0).res.value[1]
    /\ (C11_Case /\ ~Ago(0).res.increment) =>
        /\ Ago(0).res.value = RedisGet(Ago(0).before, counter_key)
        /\ db = Ago(0).before
    /\ Took(1) => Counter(db) >= Counter(Ago(0).before)

C11_Witness ==
    /\ Took(3)
    /\ \A k \in 0..2 : Ago(k).op = "count"
    /\ Ago(2).res.increment /\ Ago(1).res.increment /\ ~Ago(0).res.increment
    /\ Ago(2).proc # Ago(1).proc
    /\ Ago(1).res.value = Some(43)
    /\ Ago(0).res.value = Some(43)

----------------------------------------------------------------------------
(* C12: the one-month expiry of a user's quota key is set exactly once, by *)
(* the quota() call that creates the key: whenever a quota() call sets the *)
(* expiry of a key, the key carries no expiry yet (no earlier call has set *)
(* it).                                                                    *)

C12_ExpirySetOnceByInitializingCall ==
    (Took(1) /\ Ago(0).op = "quota_expire" /\ RedisExists(Ago(0).before, Ago(0).key)) =>
        Ago(0).before[Ago(0).key].exp = NoExpiry

----------------------------------------------------------------------------
(* C13: increment_quota on a user whose quota key of the month is absent   *)
(* raises UserDoesNotExistError and leaves the keyspace as it found it;    *)
(* when its INCR finds the key, the key's value grows by exactly one, its  *)
(* expiry stays, every other key stays, and the new value is returned.     *)

C13_AbsentCase ==
    /\ Took(1)
    /\ Ago(0).op = "increment_quota_exists"
    /\ ~RedisExists(Ago(0).before, Ago(0).key)

C13_PresentCase ==
    /\ Took(1)
    /\ Ago(0).op = "increment_quota_incr"
    /\ RedisExists(Ago(0).before, Ago(0).key)

C13_IncrementQuota ==
    /\ C13_AbsentCase =>
        /\ Ago(0).res.kind = "UserDoesNotExistError"
        /\ db = Ago(0).before
        /\ pc[Ago(0).proc] = "idle"
    /\ C13_PresentCase =>
        /\ db = Put(Ago(0).before, Ago(0).key,
                    Ago(0).before[Ago(0).key].val + 1, Ago(0).before[Ago(0).key].exp)
        /\ Ago(0).res.value = Ago(0).before[Ago(0).key].val + 1

C13_Witness ==
    /\ Took(3)
    /\ Ago(2).op = "increment_quota_incr"
    /\ RedisExists(Ago(2).before, Ago(2).key)
    /\ Ago(2).res.value = 20
    /\ C13_AbsentCase
    /\ Ago(0).res.kind = "UserDoesNotExistError"

----------------------------------------------------------------------------
(* AppConfigCacheDAO: the cache of AWS AppConfig documents.  A get() or    *)
(* metadata() call is up to three steps: the cache read, the fetch from    *)
(* AppConfig, and the MULTI/EXEC batch that warms the cache.  New versions *)
(* may be deployed to AppConfig between any two steps.                     *)

MaxVersion == 2

MaxCalls == 2

Versions == 1..MaxVersion

Methods == {"get", "metadata"}

COOL_TTL == 7 * 24 * 60 * 60

\* the `version` argument: 'latest' or a version number
VersionArgs(n) == {"latest"} \cup {ToString(v) : v \in 1..n}

\* int(version)
version_number(version) == CHOOSE v \in Versions : ToString(v) = version

cache_prefix_key(key) == "cache:" \o prefix_key(key)

appconfig_latest_key == cache_prefix_key("appconfig:latest")

appconfig_latest_metadata_key == cache_prefix_key("appconfig:latest:metadata")

appconfig_version_key(version) == cache_prefix_key("appconfig:v" \o ToString(version))

appconfig_metadata_key(version) ==
    cache_prefix_key("appconfig:v" \o ToString(version) \o ":metadata")

\* json.dumps / json.loads: a blob is not the object it encodes
json_dumps(obj) == [json |-> obj]

json_loads(blob) == blob.json

\* the hosted configuration version v and the metadata of a fetch at time t
Document(v) == [configuration |-> v]

Metadata(v, t) ==
    [version |-> v, etag |-> "etag-v" \o ToString(v),
     content_type |-> "application/json", fetched_at |-> t]

\* the Data API serves the newest deployed version n and names it in the
\* response headers (lines 224-236); a response without a version header
\* (line 229, the control-plane lookup of lines 247-272) is not modelled
fetch_latest_appconfig(n, t) ==
    [resolved_version |-> n, document |-> Document(n), metadata |-> Metadata(n, t)]

\* the control-plane API serves the version asked for
fetch_appconfig(version, t) ==
    [resolved_version |-> version, document |-> Document(version),
     metadata |-> Metadata(version, t)]

\* variant: a forced call is served from the cache like any other
force_pull_never(force) == FALSE

\* lines 93, 118: if force
force_pull(force) == force

\* variant: the stored blob is handed back without json.loads
cache_hit_raw(blob) == blob

\* lines 105, 130: return json.loads(blob)
cache_hit(blob) == json_loads(blob)

\* variant: a miss always goes on to fetch
cache_miss_raises_never(pull) == FALSE

\* lines 109, 134: if not pull: raise CacheMissError
cache_miss_raises(pull) == ~pull

\* variant: every warm-up duplicates into the latest keys
warm_up_latest_always(version) == TRUE

\* line 162: latest=(version == 'latest')
warm_up_latest(version) == version = "latest"

\* variant: the latest duplicates are forgotten
warm_up_cache_no_latest(d, resolved_version, document, metadata, latest, t) ==
    LET d1 == RedisSetEx(d, appconfig_version_key(resolved_version),
                         json_dumps(document), COOL_TTL, t)
    IN  RedisSetEx(d1, appconfig_metadata_key(resolved_version),
                   json_dumps(metadata), COOL_TTL, t)

\* variant: the latest duplicates are written, the versioned keys are not
warm_up_cache_latest_only(d, resolved_version, document, metadata, latest, t) ==
    IF latest
    THEN RedisSetEx(RedisSetEx(d, appconfig_latest_key, json_dumps(document), COOL_TTL, t),
                    appconfig_latest_metadata_key, json_dumps(metadata), COOL_TTL, t)
    ELSE d

\* variant: the documents are written without their metadata
warm_up_cache_no_metadata(d, resolved_version, document, metadata, latest, t) ==
    LET d1 == RedisSetEx(d, appconfig_version_key(resolved_version),
                         json_dumps(document), COOL_TTL, t)
    IN  IF latest
        THEN RedisSetEx(d1, appconfig_latest_key, json_dumps(document), COOL_TTL, t)
        ELSE d1

\* variant: the batch stops short of its last command
warm_up_cache_cut_short(d, resolved_version, document, metadata, latest, t) ==
    LET d1 == RedisSetEx(d, appconfig_version_key(resolved_version),
                         json_dumps(document), COOL_TTL, t)
        d2 == RedisSetEx(d1, appconfig_metadata_key(resolved_version),
                         json_dumps(metadata), COOL_TTL, t)
    IN  IF latest
        THEN RedisSetEx(d2, appconfig_latest_key, json_dumps(document), COOL_TTL, t)
        ELSE d1

\* variant: latest:metadata is written only when it is absent
warm_up_cache_latest_metadata_nx(d, resolved_version, document, metadata, latest, t) ==
    LET d1 == RedisSetEx(d, appconfig_version_key(resolved_version),
                         json_dumps(document), COOL_TTL, t)
        d2 == RedisSetEx(d1, appconfig_metadata_key(resolved_version),
                         json_dumps(metadata), COOL_TTL, t)
        d3 == RedisSetEx(d2, appconfig_latest_key, json_dumps(document), COOL_TTL, t)
    IN  IF ~latest
        THEN d2
        ELSE IF RedisExists(d, appconfig_latest_metadata_key)
        THEN d3
        ELSE RedisSetEx(d3, appconfig_latest_metadata_key, json_dumps(metadata),
                        COOL_TTL, t)

\* lines 173-188: MULTI; SET v{n}; SET v{n}:metadata; [SET latest; SET latest:metadata]; EXEC
warm_up_cache(d, resolved_version, document, metadata, latest, t) ==
    LET document_json == json_dumps(document)
        metadata_json == json_dumps(metadata)
        d1 == RedisSetEx(d, appconfig_version_key(resolved_version),
                         document_json, COOL_TTL, t)
        d2 == RedisSetEx(d1, appconfig_metadata_key(resolved_version),
                         metadata_json, COOL_TTL, t)
    IN  IF latest
        THEN RedisSetEx(RedisSetEx(d2, appconfig_latest_key, document_json, COOL_TTL, t),
                        appconfig_latest_metadata_key, metadata_json, COOL_TTL, t)
        ELSE d2

\* variant: metadata() reads the key of the document
cache_key_document(method, version) ==
    IF version = "latest" THEN appconfig_latest_key
    ELSE appconfig_version_key(version_number(version))

\* lines 97-100, 122-125: the key a call reads
cache_key(method, version) ==
    IF method = "get"
    THEN IF version = "latest" THEN appconfig_latest_key
         ELSE appconfig_version_key(version_number(version))
    ELSE IF version = "latest" THEN appconfig_latest_metadata_key
         ELSE appconfig_metadata_key(version_number(version))

\* the AppConfig API a pull goes to (lines 154-157)
fetcher_of(version) ==
    IF version = "latest" THEN "fetch_latest_appconfig" ELSE "fetch_appconfig"

\* lines 154-157: fetch the newest deployed version n, or the version asked for
pull_appconfig(version, n, t) ==
    IF version = "latest"
    THEN fetch_latest_appconfig(n, t)
    ELSE fetch_appconfig(version_number(version), t)

\* lines 90-114 (get), 116-139 (metadata): force, or GET key then hit / miss;
\* a forced call and a permitted miss go on to fetch from AppConfig.  The
\* fetch reads nothing of the cache and the cache read nothing of AppConfig,
\* so the two are taken as one step; the batch that follows is another.
cache_get(p, method, version, pull, force) ==
    /\ pc[p] = "idle"
    /\ nops < MaxCalls
    /\ nops' = nops + 1
    /\ LET key == cache_key(method, version)
           blob == RedisGet(db, key)
           args == [method |-> method, version |-> version, pull |-> pull,
                    force |-> force]
           fetched == pull_appconfig(version, deployed, now)
           goes_on(read) ==
               /\ hist' = Push(hist, Call("cache_get", p, key,
                                          [kind |-> "pending", args |-> args,
                                           read |-> read, fetches |-> 1,
                                           fetcher |-> fetcher_of(version),
                                           fetched |-> fetched]))
               /\ pc' = [pc EXCEPT ![p] = "warm_up"]
               /\ loc' = [loc EXCEPT ![p] = [args |-> args, fetches |-> 1,
                                             fetcher |-> fetcher_of(version),
                                             fetched |-> fetched]]
       IN  IF force_pull(force)
           THEN goes_on(FALSE)
           ELSE IF blob # Nil
           THEN /\ hist' = Push(hist, Call("cache_get", p, key,
                                           [kind |-> "ok", args |-> args, read |-> TRUE,
                                            fetches |-> 0,
                                            value |-> cache_hit(blob[1])]))
                /\ UNCHANGED <<pc, loc>>
           ELSE IF cache_miss_raises(pull)
           THEN /\ hist' = Push(hist, Call("cache_get", p, key,
                                           [kind |-> "CacheMissError", args |-> args,
                                            read |-> TRUE, fetches |-> 0]))
                /\ UNCHANGED <<pc, loc>>
           ELSE goes_on(TRUE)
    /\ UNCHANGED <<now, db, nticks, lastHit, urlBatch, deployed>>

\* lines 159-164, 95, 114, 120, 139: the batch executes, the call returns
warm_up(p) ==
    /\ pc[p] = "warm_up"
    /\ LET l == loc[p]
           f == l.fetched
       IN  /\ db' = warm_up_cache(db, f.resolved_version, f.document, f.metadata,
                                  warm_up_latest(l.args.version), now)
           /\ hist' = Push(hist, Call("warm_up", p,
                                      cache_key(l.args.method, l.args.version),
                                      [kind |-> "ok", args |-> l.args,
                                       fetches |-> l.fetches,
                                       fetcher |-> l.fetcher, fetched |-> f,
                                       value |-> IF l.args.method = "get"
                                                 THEN f.document ELSE f.metadata]))
    /\ pc' = [pc EXCEPT ![p] = "idle"]
    /\ loc' = [loc EXCEPT ![p] = NoLocals]
    /\ UNCHANGED <<now, nops, nticks, lastHit, urlBatch, deployed>>

\* a new configuration version is deployed to AppConfig
deploy ==
    /\ deployed < MaxVersion
    /\ deployed' = deployed + 1
    /\ UNCHANGED <<now, db, pc, loc, nops, nticks, hist, lastHit, urlBatch>>

\* the clock of the cache moves by one second or to the expiry of a key
CacheJumpTargets == JumpTargets \ {beginning_of_next_month(now)}

\* Initial caches: empty, or warmed by latest() one second less than
\* COOL_TTL ago
InitCaches(t) ==
    { EmptyStore,
      warm_up_cache(EmptyStore, 1, Document(1), Metadata(1, t + 1 - COOL_TTL),
                    TRUE, t + 1 - COOL_TTL) }

InitCache ==
    /\ now = MonthStart(2025, 10) + 14 * SecondsPerDay
    /\ db \in InitCaches(now)
    /\ lastHit = [k \in {} |-> 0]
    /\ urlBatch = EmptyGhost
    /\ pc = [p \in Procs |-> "idle"]
    /\ loc = [p \in Procs |-> NoLocals]
    /\ nops = 0
    /\ nticks = 0
    /\ hist = <<>>
    /\ deployed = 1

\* what a client may call: lambda1 is any caller of get() and metadata();
\* lambda2 is the warm_appconfig_cache function, which only ever calls
\* version(force=True), i.e. metadata('latest', pull=True, force=True)
CallArgs(p, n) ==
    IF p = "lambda2"
    THEN {[method |-> "metadata", version |-> "latest", pull |-> TRUE, force |-> TRUE]}
    ELSE [method : Methods, version : VersionArgs(n), pull : BOOLEAN, force : BOOLEAN]

NextCache ==
    \/ \E p \in Procs : \E a \in CallArgs(p, deployed) :
            cache_get(p, a.method, a.version, a.pull, a.force)
    \/ \E p \in Procs : warm_up(p)
    \/ deploy
    \/ \E t \in CacheJumpTargets : Tick(t)

SpecCache == InitCache /\ [][NextCache]_vars

\* the keyspace a warm-up of `fetched` at time t leaves behind
Warmed(before, fetched, with_latest, t) ==
    LET n == fetched.resolved_version
        docs == {appconfig_version_key(n)}
                    \cup (IF with_latest THEN {appconfig_latest_key} ELSE {})
        metas == {appconfig_metadata_key(n)}
                    \cup (IF with_latest THEN {appconfig_latest_metadata_key} ELSE {})
    IN  [k \in DOMAIN before \cup docs \cup metas |->
            IF k \in docs
            THEN [val |-> json_dumps(fetched.document), exp |-> t + COOL_TTL]
            ELSE IF k \in metas
            THEN [val |-> json_dumps(fetched.metadata), exp |-> t + COOL_TTL]
            ELSE before[k]]

CacheStep(op) == Took(1) /\ Ago(0).op = op

----------------------------------------------------------------------------
(* C14: with force=False and pull=False, get() and metadata() on a cache   *)
(* that lacks the key they read raise CacheMissError, fetch nothing from   *)
(* AppConfig and leave the keyspace as they found it, nothing pending.     *)

C14_Case ==
    /\ CacheStep("cache_get")
    /\ ~Ago(0).res.args.force
    /\ ~Ago(0).res.args.pull
    /\ ~RedisExists(Ago(0).before, Ago(0).key)

C14_MissWithoutPullRaises ==
    C14_Case =>
        /\ Ago(0).res.kind = "CacheMissError"
        /\ Ago(0).res.fetches = 0
        /\ db = Ago(0).before
        /\ pc[Ago(0).proc] = "idle"

C14_Witness ==
    /\ C14_Case
    /\ Ago(0).res.kind = "CacheMissError"
    /\ Ago(0).res.args.method = "metadata"
    /\ Ago(0).res.args.version = "1"
    /\ RedisExists(db, appconfig_latest_key)

----------------------------------------------------------------------------
(* C15: get('latest', pull=True, force=False) that missed the latest key   *)
(* has fetched once, from the latest-version API; its batch writes exactly *)
(* v{n}, v{n}:metadata, latest and latest:metadata (n the version fetched, *)
(* document and metadata as fetched, expiry COOL_TTL ahead), leaves every  *)
(* other key alone, and the call returns the fetched document.             *)

C15_Case ==
    /\ CacheStep("warm_up")
    /\ Ago(0).res.args = [method |-> "get", version |-> "latest",
                          pull |-> TRUE, force |-> FALSE]

C15_PullLatestWritesFourKeys ==
    C15_Case =>
        /\ Ago(0).res.fetches = 1
        /\ Ago(0).res.fetcher = "fetch_latest_appconfig"
        /\ db = Warmed(Ago(0).before, Ago(0).res.fetched, TRUE, Ago(0).at)
        /\ Ago(0).res.value = Ago(0).res.fetched.document
        /\ Ago(0).res.value = Document(Ago(0).res.fetched.resolved_version)

C15_Witness ==
    /\ C15_Case
    /\ Ago(0).res.value = Document(2)
    /\ Cardinality(DOMAIN db) = 4
    /\ Ago(0).before = EmptyStore

----------------------------------------------------------------------------
(* C16: with force=True, get() and metadata() do not read the cache and go *)
(* on to fetch whatever the cache holds; their batch writes exactly v{n}   *)
(* and v{n}:metadata for a version number n, and those two plus latest and *)
(* latest:metadata for 'latest'; the call returns the value just fetched.  *)

C16_StartCase == CacheStep("cache_get") /\ Ago(0).res.args.force

C16_BatchCase == CacheStep("warm_up") /\ Ago(0).res.args.force

C16_ForceAlwaysFetches ==
    /\ C16_StartCase =>
        /\ ~Ago(0).res.read
        /\ Ago(0).res.kind = "pending"
        /\ Ago(0).res.fetches = 1
        /\ Ago(0).res.fetcher = fetcher_of(Ago(0).res.args.version)
        /\ pc[Ago(0).proc] = "warm_up"
    /\ C16_BatchCase =>
        /\ Ago(0).res.fetches = 1
        /\ db = Warmed(Ago(0).before, Ago(0).res.fetched,
                       Ago(0).res.args.version = "latest", Ago(0).at)
        /\ Ago(0).res.args.version # "latest" =>
              Ago(0).res.fetched.resolved_version
                  = version_number(Ago(0).res.args.version)
        /\ Ago(0).res.value = IF Ago(0).res.args.method = "get"
                              THEN Ago(0).res.fetched.document
                              ELSE Ago(0).res.fetched.metadata

C16_Witness ==
    /\ C16_BatchCase
    /\ Ago(0).res.args.version = "1"
    /\ Ago(0).res.args.method = "get"
    /\ RedisExists(Ago(0).before, Ago(0).key)
    /\ Ago(0).before[Ago(0).key].exp < db[Ago(0).key].exp
    /\ Ago(0).res.value = Document(1)

----------------------------------------------------------------------------
(* C17: with force=False, get() and metadata() that find the key they read *)
(* return the object its blob decodes to, fetch nothing from AppConfig and *)
(* leave the keyspace as they found it, nothing pending.                   *)

C17_Case ==
    /\ CacheStep("cache_get")
    /\ ~Ago(0).res.args.force
    /\ RedisExists(Ago(0).before, Ago(0).key)

C17_HitReturnsCached ==
    C17_Case =>
        /\ Ago(0).res.kind = "ok"
        /\ Ago(0).res.value = json_loads(Ago(0).before[Ago(0).key].val)
        /\ Ago(0).res.fetches = 0
        /\ db = Ago(0).before
        /\ pc[Ago(0).proc] = "idle"

C17_Witness ==
    /\ C17_Case
    /\ Ago(0).res.args.method = "metadata"
    /\ Ago(0).res.args.version = "latest"
    /\ Ago(0).res.kind = "ok"
    /\ Ago(0).res.value.version = 1
    /\ deployed = 2

----------------------------------------------------------------------------
(* C18: no step of a get() or metadata() call made with a version number   *)
(* (any pull, any force) changes the latest or the latest:metadata key.    *)

LatestKeys == {appconfig_latest_key, appconfig_latest_metadata_key}

C18_Case ==
    /\ Took(1)
    /\ Ago(0).op \in {"cache_get", "warm_up"}
    /\ Ago(0).res.args.version # "latest"

C18_ExplicitVersionKeepsLatest ==
    C18_Case => Restrict(db, LatestKeys) = Restrict(Ago(0).before, LatestKeys)

C18_Witness ==
    /\ C18_Case
    /\ Ago(0).op = "warm_up"
    /\ Ago(0).res.args.version = "2"
    /\ RedisExists(db, appconfig_latest_key)
    /\ json_loads(db[appconfig_latest_metadata_key].val).version = 1

----------------------------------------------------------------------------
(* C19: whenever the latest keys exist, latest and latest:metadata are     *)
(* byte-identical to v{N} and v{N}:metadata, N being the version the       *)
(* latest keys were fetched as.                                            *)

LatestVersion(d) == json_loads(d[appconfig_latest_metadata_key].val).version

C19_LatestIdenticalToVersioned ==
    LatestKeys \subseteq DOMAIN db =>
        /\ RedisExists(db, appconfig_version_key(LatestVersion(db)))
        /\ RedisExists(db, appconfig_metadata_key(LatestVersion(db)))
        /\ db[appconfig_latest_key].val = db[appconfig_version_key(LatestVersion(db))].val
        /\ db[appconfig_latest_metadata_key].val
              = db[appconfig_metadata_key(LatestVersion(db))].val

(* C19, amended: whenever the latest keys exist, so do v{N} and            *)
(* v{N}:metadata, and v{N}:metadata records version N; right after a batch *)
(* that wrote the latest keys, latest and latest:metadata are              *)
(* byte-identical to v{N} and v{N}:metadata, expiry included.  (A later    *)
(* batch for version number N rewrites v{N} and v{N}:metadata alone.)      *)

C19_LatestIdenticalWhenWritten ==
    /\ LatestKeys \subseteq DOMAIN db =>
        /\ RedisExists(db, appconfig_version_key(LatestVersion(db)))
        /\ RedisExists(db, appconfig_metadata_key(LatestVersion(db)))
        /\ json_loads(db[appconfig_metadata_key(LatestVersion(db))].val).version
              = LatestVersion(db)
    /\ (CacheStep("warm_up") /\ Ago(0).res.args.version = "latest") =>
        /\ LatestKeys \subseteq DOMAIN db
        /\ db[appconfig_latest_key] = db[appconfig_version_key(LatestVersion(db))]
        /\ db[appconfig_latest_metadata_key]
              = db[appconfig_metadata_key(LatestVersion(db))]

C19_Witness ==
    /\ LatestKeys \subseteq DOMAIN db
    /\ db[appconfig_latest_metadata_key].val
          # db[appconfig_metadata_key(LatestVersion(db))].val
    /\ CacheStep("warm_up")
    /\ Ago(0).res.args.version = "1"
    /\ LatestVersion(db) = 1

----------------------------------------------------------------------------
(* C20: in every state, v{n} exists exactly when v{n}:metadata exists, for *)
(* every version n, and latest exists exactly when latest:metadata exists; *)
(* and every batch writes each document together with its metadata, under  *)
(* one expiry.                                                             *)

C20_DocumentAndMetadataTogether ==
    /\ \A n \in Versions :
          /\ RedisExists(db, appconfig_version_key(n))
                <=> RedisExists(db, appconfig_metadata_key(n))
          /\ RedisExists(db, appconfig_version_key(n)) =>
                db[appconfig_version_key(n)].exp = db[appconfig_metadata_key(n)].exp
    /\ RedisExists(db, appconfig_latest_key)
          <=> RedisExists(db, appconfig_latest_metadata_key)
    /\ RedisExists(db, appconfig_latest_key) =>
          db[appconfig_latest_key].exp = db[appconfig_latest_metadata_key].exp

C20_Witness ==
    /\ Took(1)
    /\ Ago(0).op = "tick"
    /\ LatestKeys \subseteq DOMAIN Ago(0).before
    /\ LatestKeys \cap DOMAIN db = {}
    /\ RedisExists(db, appconfig_version_key(1))
    /\ RedisExists(db, appconfig_metadata_key(1))

----------------------------------------------------------------------------
(* C25: when two clients race on the first hit of the month (both have     *)
(* passed EXISTS before either batch runs, the hits key absent), the       *)
(* conditional initialisation of both batches takes effect: the batch that *)
(* runs second sets the key to DEFAULT_LINK_HITS_QUOTA again before it     *)
(* decrements.                                                             *)

C25_Case ==
    /\ Took(3)
    /\ Ago(2).op = "hit_exists" /\ Ago(2).res.kind = "pending"
    /\ Ago(1).op = "hit_pipeline"
    /\ Ago(0).op = "hit_pipeline"
    /\ Ago(1).proc # Ago(0).proc
    /\ Ago(1).hits_key = Ago(0).hits_key
    /\ ~RedisExists(Ago(1).before, Ago(1).hits_key)

C25_BothInitialisationsTakeEffect ==
    C25_Case =>
        /\ Ago(1).res.leftover_hits = DEFAULT_LINK_HITS_QUOTA - 1
        /\ Ago(0).res.leftover_hits = DEFAULT_LINK_HITS_QUOTA - 1

(* C25, amended: in that race both calls succeed, but only the batch that  *)
(* runs first sets the hits key; the SET NX of the second finds the key    *)
(* and changes neither its value nor its expiry.  The first batch returns  *)
(* DEFAULT_LINK_HITS_QUOTA - 1, the second DEFAULT_LINK_HITS_QUOTA - 2.    *)

C25_OnlyFirstBatchInitialises ==
    C25_Case =>
        /\ Ago(1).res.kind = "ok" /\ Ago(0).res.kind = "ok"
        /\ Ago(1).res.leftover_hits = DEFAULT_LINK_HITS_QUOTA - 1
        /\ Ago(0).before[Ago(0).hits_key].val = DEFAULT_LINK_HITS_QUOTA - 1
        /\ Ago(0).res.leftover_hits = DEFAULT_LINK_HITS_QUOTA - 2
        /\ db[Ago(0).hits_key].val = DEFAULT_LINK_HITS_QUOTA - 2
        /\ db[Ago(0).hits_key].exp = Ago(0).before[Ago(0).hits_key].exp

C25_Witness ==
    /\ C25_Case
    /\ Ago(2).proc = Ago(1).proc
    /\ Ago(0).res.leftover_hits = 9998
    /\ Ago(1).res.leftover_hits = 9999

----------------------------------------------------------------------------
(* C30: hits on one shortcode within a month lose no decrement.  A batch   *)
(* initialises the hits key exactly when it finds it absent, and then      *)
(* returns DEFAULT_LINK_HITS_QUOTA - 1; a batch that finds the key leaves  *)
(* its expiry and returns one less than the value found; of two batches on *)
(* a key that lived throughout, the later returns the earlier's value      *)
(* minus the number of batches since; and the stored value is the value    *)
(* the last batch returned.                                                *)

HitBatch(k) == Ago(k).op = "hit_pipeline"

C30_Case ==
    /\ Took(1)
    /\ HitBatch(0)
    /\ Ago(0).hits_key = link_hits_key(Ago(0).shortcode, Ago(0).at)

C30_NoLostDecrement ==
    /\ C30_Case =>
        /\ ~RedisExists(Ago(0).before, Ago(0).hits_key) =>
              /\ Ago(0).res.leftover_hits = DEFAULT_LINK_HITS_QUOTA - 1
              /\ db[Ago(0).hits_key].exp = beginning_of_next_month(Ago(0).at)
        /\ RedisExists(Ago(0).before, Ago(0).hits_key) =>
              /\ Ago(0).res.leftover_hits = Ago(0).before[Ago(0).hits_key].val - 1
              /\ db[Ago(0).hits_key].exp = Ago(0).before[Ago(0).hits_key].exp
        /\ db[Ago(0).hits_key].val = Ago(0).res.leftover_hits
        /\ \A k \in 1..(Len(hist) - 1) :
              ( /\ HitBatch(k)
                /\ Ago(k).hits_key = Ago(0).hits_key
                /\ \A j \in 0..(k - 1) : RedisExists(Ago(j).before, Ago(0).hits_key) )
              => Ago(0).res.leftover_hits
                    = Ago(k).res.leftover_hits
                        - Cardinality({j \in 0..(k - 1) :
                                          HitBatch(j) /\ Ago(j).hits_key = Ago(0).hits_key})
    /\ \A key \in DOMAIN lastHit : RedisExists(db, key) /\ db[key].val = lastHit[key]

C30_Witness ==
    /\ Took(3)
    /\ C30_Case
    /\ Ago(2).op = "hit_exists" /\ Ago(2).proc = Ago(0).proc
    /\ HitBatch(1) /\ Ago(1).proc # Ago(0).proc
    /\ Ago(1).hits_key = Ago(0).hits_key
    /\ Ago(1).res.leftover_hits = DEFAULT_LINK_HITS_QUOTA - 2
    /\ Ago(0).res.leftover_hits = DEFAULT_LINK_HITS_QUOTA - 3
    /\ db[Ago(0).hits_key].val = DEFAULT_LINK_HITS_QUOTA - 3

----------------------------------------------------------------------------
(* RedisKeySchema and CacheKeySchema, for any prefix.                      *)
(* The two schema objects of a deployment are built from the same prefix   *)
(* (utils.config app_prefix); each step generates one key at today's date. *)
(* The registry remembers which logical entities every generated key has   *)
(* stood for.                                                              *)

MaxKeys == 3

Prefixes == {Nil, Some("testapp:test"), Some("cache:testapp:test")}

KeyShortcodes == {"abc123", "abc123:url", "counter"}

KeyUsers == {"user123", "user124"}

Entities ==
    {"link_url", "link_hits", "counter", "user_quota", "appconfig_latest",
     "appconfig_latest_metadata", "appconfig_version", "appconfig_metadata"}

\* the arguments each key method takes
Identifiers(entity) ==
    CASE entity \in {"link_url", "link_hits"} -> KeyShortcodes
      [] entity = "user_quota" -> KeyUsers
      [] entity \in {"appconfig_version", "appconfig_metadata"} ->
            {ToString(v) : v \in Versions}
      [] OTHER -> {""}

\* the keys built from date.today()
Monthly(entity) == entity \in {"link_hits", "user_quota"}

\* redis_key_schema.py line 13, cache_key_schema.py line 12
prefixed(pfx, key) == IF pfx # Nil THEN pfx[1] \o ":" \o key ELSE key

\* RedisKeySchema.__init__, line 30
redis_schema_prefix(pfx) == pfx

\* CacheKeySchema.__init__, line 32
cache_schema_prefix(pfx) == IF pfx # Nil THEN Some("cache:" \o pfx[1]) ELSE Nil

\* variant: the version is left out of the metadata key
schema_appconfig_metadata_key_unversioned(pfx, version) ==
    prefixed(cache_schema_prefix(pfx), "appconfig:v:metadata")

\* CacheKeySchema.appconfig_metadata_key, lines 46-48
schema_appconfig_metadata_key(pfx, version) ==
    prefixed(cache_schema_prefix(pfx),
             "appconfig:v" \o ToString(version_number(version)) \o ":metadata")

\* the key a schema built with pfx generates for an entity on the day of t
schema_key(pfx, entity, id, t) ==
    CASE entity = "link_url" ->
            prefixed(redis_schema_prefix(pfx), "links:" \o id \o ":url")
      [] entity = "link_hits" ->
            prefixed(redis_schema_prefix(pfx), "links:" \o id \o ":hits:" \o this_month(t))
      [] entity = "counter" ->
            prefixed(redis_schema_prefix(pfx), "links:counter")
      [] entity = "user_quota" ->
            prefixed(redis_schema_prefix(pfx), "users:" \o id \o ":quota:" \o this_month(t))
      [] entity = "appconfig_latest" ->
            prefixed(cache_schema_prefix(pfx), "appconfig:latest")
      [] entity = "appconfig_latest_metadata" ->
            prefixed(cache_schema_prefix(pfx), "appconfig:latest:metadata")
      [] entity = "appconfig_version" ->
            prefixed(cache_schema_prefix(pfx),
                     "appconfig:v" \o ToString(version_number(id)))
      [] entity = "appconfig_metadata" ->
            schema_appconfig_metadata_key(pfx, id)

\* what a key stands for
Identity(pfx, entity, id, t) ==
    [prefix |-> pfx, entity |-> entity, id |-> id,
     month |-> IF Monthly(entity) THEN this_month(t) ELSE ""]

EmptyRegistry == [k \in {} |-> {}]

Register(reg, key, identity) ==
    Extend(reg, key, (IF key \in DOMAIN reg THEN reg[key] ELSE {}) \cup {identity})

\* one call of a key method
generate_key(p, entity, id) ==
    /\ nops < MaxKeys
    /\ nops' = nops + 1
    /\ LET pfx == loc[p].prefix
           key == schema_key(pfx, entity, id, now)
       IN  /\ db' = Register(db, key, Identity(pfx, entity, id, now))
           /\ hist' = Push(hist, [op |-> "generate_key", proc |-> p,
                                  identity |-> Identity(pfx, entity, id, now),
                                  key |-> key])
    /\ UNCHANGED <<now, pc, loc, nticks, lastHit, urlBatch, deployed>>

\* the date moves on
today(t) ==
    /\ nticks < MaxTicks
    /\ nticks' = nticks + 1
    /\ t > now
    /\ now' = t
    /\ UNCHANGED <<db, pc, loc, nops, hist, lastHit, urlBatch, deployed>>

InitKeys ==
    /\ now = MonthStart(2025, 10) + 14 * SecondsPerDay
    /\ db = EmptyRegistry
    /\ lastHit = [k \in {} |-> 0]
    /\ urlBatch = EmptyGhost
    /\ pc = [p \in Procs |-> "idle"]
    /\ \E pfx \in Prefixes : loc = [p \in Procs |-> [prefix |-> pfx]]
    /\ nops = 0
    /\ nticks = 0
    /\ hist = <<>>
    /\ deployed = 1

NextKeys ==
    \/ \E p \in {"lambda1"}, entity \in Entities :
          \E id \in Identifiers(entity) : generate_key(p, entity, id)
    \/ \E t \in {now + 1, beginning_of_next_month(now)} : today(t)

SpecKeys == InitKeys /\ [][NextKeys]_vars

(* C29: key generation is deterministic and collision-free.  Two calls     *)
(* with the same prefix, entity, identifiers and month give the same key;  *)
(* under one prefix (absent included) a key never stands for two entities, *)
(* identifiers or months, so distinct shortcodes, user ids and versions    *)
(* have distinct keys and no RedisKeySchema key is a CacheKeySchema key.   *)
(* The keys the DAOs use are the keys of the schema built with their       *)
(* prefix.                                                                 *)

C29_Deterministic ==
    \A i, j \in 1..Len(hist) :
        hist[i].identity = hist[j].identity => hist[i].key = hist[j].key

C29_CollisionFree ==
    \A key \in DOMAIN db : \A a, b \in db[key] :
        a.prefix = b.prefix => a = b

C29_DaoKeys ==
    \A i \in 1..Len(hist) :
        LET e == hist[i]
            id == e.identity.id
        IN  e.identity.prefix = prefix =>
              /\ e.identity.entity = "link_url" /\ id \in Shortcodes
                    => e.key = link_url_key(id)
              /\ e.identity.entity = "link_hits" /\ id \in Shortcodes
                       /\ e.identity.month = this_month(now)
                    => e.key = link_hits_key(id, now)
              /\ e.identity.entity = "counter" => e.key = counter_key
              /\ e.identity.entity = "user_quota" /\ id \in Users
                       /\ e.identity.month = this_month(now)
                    => e.key = user_quota_key(id, now)
              /\ e.identity.entity = "appconfig_latest" => e.key = appconfig_latest_key
              /\ e.identity.entity = "appconfig_latest_metadata"
                    => e.key = appconfig_latest_metadata_key
              /\ e.identity.entity = "appconfig_version"
                    => e.key = appconfig_version_key(version_number(id))
              /\ e.identity.entity = "appconfig_metadata"
                    => e.key = appconfig_metadata_key(version_number(id))

C29_KeysDeterministicAndCollisionFree ==
    /\ C29_Deterministic
    /\ C29_CollisionFree
    /\ C29_DaoKeys

C29_Witness ==
    /\ Took(3)
    /\ Ago(2).identity = Ago(0).identity
    /\ nticks > 0
    /\ Ago(0).identity.entity = "user_quota"
    /\ Ago(1).identity.entity = "appconfig_metadata"
    /\ Ago(1).identity.prefix = Ago(0).identity.prefix
    /\ Ago(0).identity.prefix = Nil
    /\ Ago(1).key # Ago(0).key

----------------------------------------------------------------------------
(* Failures.  A store component is built by its constructor, which probes  *)
(* the connection; every round trip to the store can end in a redis        *)
(* ConnectionError, and a fetch from AppConfig can fail.  A write whose    *)
(* round trip fails may or may not have reached the server.                *)

\* connection_pool.connection_kwargs of the client
Endpoint == [host |-> "203.0.113.1", port |-> 18000, db |-> 5]

\* redis.exceptions.ConnectionError
ConnectionError == [kind |-> "ConnectionError"]

\* what a fetch from AppConfig raises: AppConfigError, or an error of boto3
FetchErrors == {[kind |-> "AppConfigError"], [kind |-> "ClientError"]}

\* variant: the decorator lets the ConnectionError through
handle_redis_connection_error_reraise(raised) == raised

\* variant: the decorator catches every exception
handle_redis_connection_error_any(raised) ==
    [kind |-> "DataStoreError", endpoint |-> Endpoint, cause |-> raised]

\* helpers.py lines 29-40: except redis.exceptions.ConnectionError -> DataStoreError
handle_redis_connection_error(raised) ==
    IF raised.kind = "ConnectionError"
    THEN [kind |-> "DataStoreError", endpoint |-> Endpoint, cause |-> raised]
    ELSE raised

\* variant: the batch lets the ConnectionError through
warm_up_cache_error_reraise(raised) == raised

\* appconfig_cache_dao.py lines 189-193: except ConnectionError -> CachePutError
warm_up_cache_error(raised) ==
    IF raised.kind = "ConnectionError"
    THEN [kind |-> "CachePutError", cause |-> raised]
    ELSE raised

\* variant: a failed probe is reported by the return value only
healthcheck_raises_never(raise_error) == FALSE

\* mixins.py line 127: if raise_error
healthcheck_raises(raise_error) == raise_error

\* mixins.py lines 124-137: PING; except ConnectionError -> DataStoreError
heatlhcheck(ping_ok, raise_error) ==
    IF ping_ok
    THEN [kind |-> "ok", value |-> TRUE, pings |-> 1]
    ELSE IF healthcheck_raises(raise_error)
    THEN [kind |-> "DataStoreError", endpoint |-> Endpoint, cause |-> ConnectionError,
          pings |-> 1]
    ELSE [kind |-> "ok", value |-> FALSE, pings |-> 1]

\* mixins.py lines 90-103: RedisClientMixin.__init__ ends with self._heatlhcheck()
construct(p, ping_ok) ==
    /\ pc[p] = "new"
    /\ nops < MaxOps
    /\ LET res == heatlhcheck(ping_ok, TRUE)
       IN  /\ hist' = Push(hist, Call("construct", p, "", res))
           /\ IF res.kind = "ok"
              THEN pc' = [pc EXCEPT ![p] = "idle"] /\ nops' = nops
              ELSE pc' = pc /\ nops' = nops + 1
    /\ UNCHANGED <<now, db, loc, nticks, lastHit, urlBatch, deployed>>

\* the first round trip of each store-facing operation, with the keyspace
\* it leaves if it reaches the server
FirstRoundTrips(d, t) ==
    {[call |-> "insert", command |-> "EXISTS", key |-> link_url_key(sc), applied |-> d] :
        sc \in Shortcodes}
    \cup {[call |-> "get", command |-> "GET", key |-> link_url_key(sc), applied |-> d] :
            sc \in Shortcodes}
    \cup {[call |-> "hit", command |-> "EXISTS", key |-> link_url_key(sc), applied |-> d] :
            sc \in Shortcodes}
    \cup {[call |-> "count", command |-> "INCR", key |-> counter_key,
           applied |-> count_incr(d)],
          [call |-> "count", command |-> "GET", key |-> counter_key, applied |-> d]}
    \cup {[call |-> "quota", command |-> "INCRBY", key |-> user_quota_key(u, t),
           applied |-> RedisIncrBy(d, user_quota_key(u, t), 0)] : u \in Users}
    \cup {[call |-> "increment_quota", command |-> "EXISTS",
           key |-> user_quota_key(u, t), applied |-> d] : u \in Users}
    \cup {[call |-> "cache_get", command |-> "GET", key |-> cache_key(m, "latest"),
           applied |-> d] : m \in Methods}

\* a call fails on its first round trip: the decorator turns the
\* ConnectionError into DataStoreError and the call is over
connection_error_first(p, rt, reached) ==
    /\ pc[p] = "idle"
    /\ nops < MaxOps
    /\ nops' = nops + 1
    /\ db' = IF reached THEN rt.applied ELSE db
    /\ hist' = Push(hist, Call("connection_error", p, rt.key,
                               [call |-> rt.call, command |-> rt.command,
                                stage |-> "idle", applied |-> rt.applied,
                                fetches |-> 0]
                               @@ handle_redis_connection_error(ConnectionError)))
    /\ UNCHANGED <<now, pc, loc, nticks, lastHit, urlBatch, deployed>>

\* the round trip a call in progress makes next
NextRoundTrip(p, d, t) ==
    LET l == loc[p]
    IN  CASE pc[p] = "insert_pipeline" ->
                [call |-> "insert", command |-> "EXEC", key |-> l.link_url_key,
                 applied |-> insert_batch(d, l, t), fetches |-> 0]
          [] pc[p] = "hit_pipeline" ->
                [call |-> "hit", command |-> "EXEC", key |-> l.link_hits_key,
                 applied |-> hit_batch(d, l.link_hits_key, t), fetches |-> 0]
          [] pc[p] = "quota_expire" ->
                [call |-> "quota", command |-> "EXPIRE", key |-> l.user_quota_key,
                 applied |-> RedisExpire(d, l.user_quota_key, ONE_MONTH_SECONDS, t),
                 fetches |-> 0]
          [] pc[p] = "increment_quota_incr" ->
                [call |-> "increment_quota", command |-> "INCR", key |-> l.user_quota_key,
                 applied |-> RedisIncrBy(d, l.user_quota_key, 1), fetches |-> 0]
          [] pc[p] = "warm_up" ->
                [call |-> "cache_get", command |-> "EXEC",
                 key |-> cache_key(l.args.method, l.args.version),
                 applied |-> warm_up_cache(d, l.fetched.resolved_version,
                                           l.fetched.document, l.fetched.metadata,
                                           warm_up_latest(l.args.version), t),
                 fetches |-> l.fetches]

\* a call fails on a later round trip; the warm-up batch has its own
\* except clause inside the decorated method
connection_error_later(p, reached) ==
    /\ pc[p] \in {"insert_pipeline", "hit_pipeline", "quota_expire",
                  "increment_quota_incr", "warm_up"}
    /\ LET rt == NextRoundTrip(p, db, now)
           raised == IF pc[p] = "warm_up" THEN warm_up_cache_error(ConnectionError)
                     ELSE ConnectionError
       IN  /\ db' = IF reached THEN rt.applied ELSE db
           /\ hist' = Push(hist, Call("connection_error", p, rt.key,
                                      [call |-> rt.call, command |-> rt.command,
                                       stage |-> pc[p], applied |-> rt.applied,
                                       fetches |-> rt.fetches]
                                      @@ handle_redis_connection_error(raised)))
    /\ pc' = [pc EXCEPT ![p] = "idle"]
    /\ loc' = [loc EXCEPT ![p] = NoLocals]
    /\ UNCHANGED <<now, nops, nticks, lastHit, urlBatch, deployed>>

\* lines 93-95, 113, 154-157: the fetch that force, or a miss with pull,
\* triggers raises; _pull_appconfig never reaches its batch
fetch_error(p, method, version, pull, force, raised) ==
    /\ pc[p] = "idle"
    /\ nops < MaxCalls
    /\ nops' = nops + 1
    /\ LET key == cache_key(method, version)
           blob == RedisGet(db, key)
           args == [method |-> method, version |-> version, pull |-> pull,
                    force |-> force]
       IN  /\ \/ force_pull(force)
              \/ ~force_pull(force) /\ blob = Nil /\ ~cache_miss_raises(pull)
           /\ hist' = Push(hist, Call("fetch_error", p, key,
                                      [args |-> args, read |-> ~force_pull(force),
                                       fetches |-> 1, fetcher |-> fetcher_of(version)]
                                      @@ handle_redis_connection_error(raised)))
    /\ UNCHANGED <<now, db, pc, loc, nticks, lastHit, urlBatch, deployed>>

----------------------------------------------------------------------------
(* utils.config.load_config, wrapped by cache_appconfig: the lambda asks   *)
(* the cache for the latest document and falls back to AppConfig itself.   *)

LambdaNames == {"shorten_url"}

\* lines 152-155 and 192-197: {backend: document['configs'][lambda_name][backend]}
lambda_configuration(document, lambda_name) ==
    [redis |-> [lambda_name |-> lambda_name, build |-> document.configuration]]

\* variant: CachePutError is missing from the except clause
falls_back_no_put_error(kind) ==
    kind \in {"CacheMissError", "DataStoreError", "ConfigurationError",
              "InfrastructureError", "MalformedResponseError", "AppConfigError"}

\* line 146: the errors after which the wrapper calls func(lambda_name);
\* AppConfigError is an InfrastructureError
falls_back(kind) ==
    kind \in {"CacheMissError", "CachePutError", "DataStoreError", "ConfigurationError",
              "InfrastructureError", "MalformedResponseError", "AppConfigError"}

\* the cache path of the wrapper is left by an exception
cache_path_raises(p, lambda_name, key, raised, d) ==
    /\ db' = d
    /\ IF falls_back(raised.kind)
       THEN /\ hist' = Push(hist, Call("load_config_cache", p, key,
                                       [lambda_name |-> lambda_name, remote_calls |-> 0]
                                       @@ raised))
            /\ pc' = [pc EXCEPT ![p] = "load_config_fallback"]
            /\ loc' = [loc EXCEPT ![p] = [lambda_name |-> lambda_name,
                                          cache_error |-> raised.kind]]
       ELSE /\ hist' = Push(hist, Call("load_config", p, key,
                                       [lambda_name |-> lambda_name, source |-> "cache",
                                        cache_error |-> Some(raised.kind),
                                        remote_calls |-> 0]
                                       @@ raised))
            /\ pc' = [pc EXCEPT ![p] = "new"]
            /\ loc' = [loc EXCEPT ![p] = NoLocals]

\* the cache path of the wrapper returns the section of the lambda
cache_path_returns(p, lambda_name, key, document, d) ==
    /\ db' = d
    /\ hist' = Push(hist, Call("load_config", p, key,
                               [kind |-> "ok", lambda_name |-> lambda_name,
                                source |-> "cache", cache_error |-> Nil,
                                remote_calls |-> 0,
                                value |-> lambda_configuration(document, lambda_name)]))
    /\ pc' = [pc EXCEPT ![p] = "new"]
    /\ loc' = [loc EXCEPT ![p] = NoLocals]

\* line 144: dao = AppConfigCacheDAO(prefix=app_prefix()), which pings the cache
load_config_construct(p, lambda_name, ping_ok) ==
    /\ pc[p] = "new"
    /\ nops < MaxCalls
    /\ nops' = nops + 1
    /\ LET res == heatlhcheck(ping_ok, TRUE)
       IN  IF res.kind = "ok"
           THEN /\ hist' = Push(hist, Call("load_config_construct", p, "",
                                           [lambda_name |-> lambda_name] @@ res))
                /\ pc' = [pc EXCEPT ![p] = "load_config_latest"]
                /\ loc' = [loc EXCEPT ![p] = [lambda_name |-> lambda_name]]
                /\ db' = db
           ELSE cache_path_raises(p, lambda_name, "", res, db)
    /\ UNCHANGED <<now, nticks, lastHit, urlBatch, deployed>>

\* line 145: document = dao.latest(pull=True); the read of the latest key,
\* and on a miss the fetch from AppConfig
load_config_latest(p, read_ok, fetch_raises) ==
    /\ pc[p] = "load_config_latest"
    /\ LET l == loc[p]
           key == cache_key("get", "latest")
           blob == RedisGet(db, key)
           args == [method |-> "get", version |-> "latest", pull |-> TRUE,
                    force |-> FALSE]
       IN  IF ~read_ok
           THEN cache_path_raises(p, l.lambda_name, key,
                                  handle_redis_connection_error(ConnectionError), db)
           ELSE IF blob # Nil
           THEN cache_path_returns(p, l.lambda_name, key, cache_hit(blob[1]), db)
           ELSE IF cache_miss_raises(args.pull)
           THEN cache_path_raises(p, l.lambda_name, key, [kind |-> "CacheMissError"], db)
           ELSE IF fetch_raises # Nil
           THEN cache_path_raises(p, l.lambda_name, key,
                                  handle_redis_connection_error(fetch_raises[1]), db)
           ELSE /\ hist' = Push(hist, Call("load_config_latest", p, key,
                                           [kind |-> "pending", args |-> args]))
                /\ pc' = [pc EXCEPT ![p] = "load_config_warm_up"]
                /\ loc' = [loc EXCEPT ![p] =
                              [lambda_name |-> l.lambda_name, args |-> args,
                               fetched |-> pull_appconfig("latest", deployed, now)]]
                /\ db' = db
    /\ UNCHANGED <<now, nops, nticks, lastHit, urlBatch, deployed>>

\* line 145, continued: the warm-up batch of dao.latest(pull=True)
load_config_warm_up(p, batch_ok, reached) ==
    /\ pc[p] = "load_config_warm_up"
    /\ LET l == loc[p]
           f == l.fetched
           key == cache_key("get", "latest")
           warmed == warm_up_cache(db, f.resolved_version, f.document, f.metadata,
                                   warm_up_latest(l.args.version), now)
       IN  IF batch_ok
           THEN cache_path_returns(p, l.lambda_name, key, f.document, warmed)
           ELSE cache_path_raises(p, l.lambda_name, key,
                                  handle_redis_connection_error(
                                      warm_up_cache_error(ConnectionError)),
                                  IF reached THEN warmed ELSE db)
    /\ UNCHANGED <<now, nops, nticks, lastHit, urlBatch, deployed>>

\* line 149: return func(lambda_name), the undecorated load_config (lines
\* 185-198): one session and one get_latest_configuration at AppConfig
load_config_fallback(p, remote_raises) ==
    /\ pc[p] = "load_config_fallback"
    /\ LET l == loc[p]
           fetched == fetch_latest_appconfig(deployed, now)
       IN  hist' = Push(hist, Call("load_config", p, "",
                   IF remote_raises = Nil
                   THEN [kind |-> "ok", lambda_name |-> l.lambda_name,
                         source |-> "remote", cache_error |-> Some(l.cache_error),
                         remote_calls |-> 1,
                         value |-> lambda_configuration(fetched.document, l.lambda_name)]
                   ELSE [lambda_name |-> l.lambda_name, source |-> "remote",
                         cache_error |-> Some(l.cache_error), remote_calls |-> 1]
                        @@ remote_raises[1]))
    /\ pc' = [pc EXCEPT ![p] = "new"]
    /\ loc' = [loc EXCEPT ![p] = NoLocals]
    /\ UNCHANGED <<now, db, nops, nticks, lastHit, urlBatch, deployed>>

Raises == {Nil} \cup {Some(e) : e \in FetchErrors}

----------------------------------------------------------------------------
\* Initial states: no component built yet; the stores empty, or holding a
\* link, the counters of a user who has generated links, and a warm cache
InitFaultStores(t) ==
    LET sc == CHOOSE s \in Shortcodes : TRUE
        tg == CHOOSE g \in Targets : TRUE
        uk == link_url_key(sc)
        hk == link_hits_key(sc, t)
        links == Put(Put(EmptyStore, uk, tg, t - 1 + ONE_YEAR_SECONDS),
                     hk, 1, beginning_of_next_month(t))
        counters == Put(Put(links, counter_key, 41, NoExpiry),
                        user_quota_key(CHOOSE u \in Users : TRUE, t), 19, t + 1)
    IN  { [db |-> EmptyStore, lastHit |-> [k \in {} |-> 0], urlBatch |-> EmptyGhost],
          [db |-> warm_up_cache(counters, 1, Document(1), Metadata(1, t - 1), TRUE, t - 1),
           lastHit |-> Extend([k \in {} |-> 0], hk, 1),
           urlBatch |-> Extend(EmptyGhost, uk, hk)] }

InitFaults ==
    /\ now = MonthStart(2025, 10) + 14 * SecondsPerDay
    /\ \E s \in InitFaultStores(now) :
        /\ db = s.db
        /\ lastHit = s.lastHit
        /\ urlBatch = s.urlBatch
    /\ pc = [p \in Procs |-> "new"]
    /\ loc = [p \in Procs |-> NoLocals]
    /\ nops = 0
    /\ nticks = 0
    /\ hist = <<>>
    /\ deployed = 1

FaultProcs == {"lambda1"}

NextFaults ==
    \/ \E p \in FaultProcs, ping_ok \in BOOLEAN : construct(p, ping_ok)
    \/ \E p \in FaultProcs, shortcode \in Shortcodes, target \in Targets :
            insert_exists(p, shortcode, target)
    \/ \E p \in FaultProcs : insert_pipeline(p)
    \/ \E p \in FaultProcs, shortcode \in Shortcodes : get(p, shortcode)
    \/ \E p \in FaultProcs, shortcode \in Shortcodes : hit_exists(p, shortcode)
    \/ \E p \in FaultProcs : hit_pipeline(p)
    \/ \E p \in FaultProcs, increment \in BOOLEAN : count(p, increment)
    \/ \E p \in FaultProcs, user_id \in Users : quota_incrby(p, user_id)
    \/ \E p \in FaultProcs : quota_expire(p)
    \/ \E p \in FaultProcs, user_id \in Users : increment_quota_exists(p, user_id)
    \/ \E p \in FaultProcs : increment_quota_incr(p)
    \/ \E p \in FaultProcs : \E a \in CallArgs(p, deployed) :
            cache_get(p, a.method, a.version, a.pull, a.force)
    \/ \E p \in FaultProcs : warm_up(p)
    \/ \E p \in FaultProcs : \E rt \in FirstRoundTrips(db, now), reached \in BOOLEAN :
            connection_error_first(p, rt, reached)
    \/ \E p \in FaultProcs, reached \in BOOLEAN : connection_error_later(p, reached)
    \/ \E p \in FaultProcs : \E a \in CallArgs(p, deployed), raised \in FetchErrors :
            fetch_error(p, a.method, a.version, a.pull, a.force, raised)
    \/ \E p \in FaultProcs, lambda_name \in LambdaNames, ping_ok \in BOOLEAN :
            load_config_construct(p, lambda_name, ping_ok)
    \/ \E p \in FaultProcs, read_ok \in BOOLEAN, fetch_raises \in Raises :
            load_config_latest(p, read_ok, fetch_raises)
    \/ \E p \in FaultProcs, batch_ok \in BOOLEAN, reached \in BOOLEAN :
            load_config_warm_up(p, batch_ok, reached)
    \/ \E p \in FaultProcs, remote_raises \in Raises :
            load_config_fallback(p, remote_raises)

SpecFaults == InitFaults /\ [][NextFaults]_vars

----------------------------------------------------------------------------
(* Reading the failures *)

\* the errors of the DAOs that are not connectivity failures
DomainErrors ==
    {"ShortURLNotFoundError", "ShortURLAlreadyExistsError", "UserDoesNotExistError",
     "CacheMissError", "CachePutError"}

\* the steps that are round trips of a store-facing operation
StoreOps ==
    {"insert_exists", "insert_pipeline", "get", "hit_exists", "hit_pipeline", "count",
     "quota_incrby", "quota_expire", "increment_quota_exists", "increment_quota_incr",
     "cache_get", "warm_up", "connection_error", "fetch_error"}

Failed(k) == Ago(k).op = "connection_error"

(* C21: a ConnectionError while the warm-up batch is executed, after a     *)
(* fetch that succeeded, ends the call with CachePutError (not with        *)
(* DataStoreError) and no value is returned; a ConnectionError on the      *)
(* cache read ends the call with DataStoreError before anything is         *)
(* fetched, the cache as it was.                                           *)

C21_BatchCase == Took(1) /\ Failed(0) /\ Ago(0).res.stage = "warm_up"

C21_ReadCase ==
    Took(1) /\ Failed(0) /\ Ago(0).res.stage = "idle" /\ Ago(0).res.call = "cache_get"

C21_CachePutErrorAndReadError ==
    /\ C21_BatchCase =>
        /\ Ago(0).res.kind = "CachePutError"
        /\ Ago(0).res.cause = ConnectionError
        /\ Ago(0).res.fetches = 1
        /\ "value" \notin DOMAIN Ago(0).res
        /\ pc[Ago(0).proc] = "idle"
    /\ C21_ReadCase =>
        /\ Ago(0).res.kind = "DataStoreError"
        /\ Ago(0).res.cause = ConnectionError
        /\ Ago(0).res.fetches = 0
        /\ "value" \notin DOMAIN Ago(0).res
        /\ db = Ago(0).before
        /\ pc[Ago(0).proc] = "idle"

C21_Witness ==
    /\ Took(3)
    /\ Failed(2) /\ Ago(2).res.stage = "idle" /\ Ago(2).res.call = "cache_get"
    /\ Ago(2).res.kind = "DataStoreError"
    /\ Ago(1).op = "cache_get" /\ Ago(1).res.kind = "pending"
    /\ C21_BatchCase
    /\ Ago(0).res.kind = "CachePutError"
    /\ db = Ago(0).before

(* C22: when force, or a miss with pull, triggers a fetch and the fetch    *)
(* fails, the caller gets the error of the fetcher as it was raised, and   *)
(* no key is written: the keyspace is as the call found it and no batch is *)
(* pending.                                                                *)

C22_Case == Took(1) /\ Ago(0).op = "fetch_error"

C22_FetchErrorPropagates ==
    C22_Case =>
        /\ \E raised \in FetchErrors : Ago(0).res.kind = raised.kind
        /\ DOMAIN Ago(0).res = {"args", "read", "fetches", "fetcher", "kind"}
        /\ Ago(0).res.args.force => ~Ago(0).res.read
        /\ ~Ago(0).res.args.force =>
              /\ Ago(0).res.read
              /\ Ago(0).res.args.pull
              /\ ~RedisExists(Ago(0).before, Ago(0).key)
        /\ db = Ago(0).before
        /\ pc[Ago(0).proc] = "idle"
        /\ loc[Ago(0).proc] = NoLocals

C22_Witness ==
    /\ Took(2)
    /\ Ago(1).op = "fetch_error" /\ Ago(1).res.args.force
    /\ Ago(1).res.kind = "AppConfigError"
    /\ C22_Case
    /\ ~Ago(0).res.args.force
    /\ Ago(0).res.kind = "ClientError"
    /\ db = EmptyStore

(* C23: a ConnectionError on a round trip of insert, get, hit, count,      *)
(* quota, increment_quota or a cache read ends the call with               *)
(* DataStoreError, which names the endpoint and carries the                *)
(* ConnectionError as its cause; the round trip is not issued again (the   *)
(* keyspace is as found, or as one execution of the command leaves it, and *)
(* nothing is pending).  ShortURLNotFoundError,                            *)
(* ShortURLAlreadyExistsError, UserDoesNotExistError, CacheMissError and   *)
(* CachePutError pass the decorator as they are.                           *)

C23_Case == Took(1) /\ Failed(0) /\ Ago(0).res.stage # "warm_up"

C23_ConnectionErrorIsDataStoreError ==
    /\ C23_Case =>
        /\ Ago(0).res.kind = "DataStoreError"
        /\ Ago(0).res.endpoint = Endpoint
        /\ Ago(0).res.cause = ConnectionError
        /\ db \in {Ago(0).before, Ago(0).res.applied}
        /\ pc[Ago(0).proc] = "idle"
        /\ loc[Ago(0).proc] = NoLocals
    /\ (Took(1) /\ Ago(0).op \in StoreOps /\ ~Failed(0)) =>
            Ago(0).res.kind # "DataStoreError"
    /\ (Took(1) /\ Ago(0).op \in StoreOps /\ Ago(0).res.kind \in DomainErrors) =>
            handle_redis_connection_error(Ago(0).res) = Ago(0).res

C23_Witness ==
    /\ Took(3)
    /\ Ago(2).op = "insert_exists" /\ Ago(2).res.kind = "ShortURLAlreadyExistsError"
    /\ Ago(1).op = "hit_exists" /\ Ago(1).res.kind = "pending"
    /\ C23_Case
    /\ Ago(0).res.stage = "hit_pipeline"
    /\ Ago(0).res.kind = "DataStoreError"
    /\ db = Ago(0).res.applied /\ db # Ago(0).before

(* C24: the constructor of a store component pings the store exactly once. *)
(* If the ping fails the constructor raises DataStoreError and no          *)
(* component comes into being; a component exists only after a ping that   *)
(* succeeded, so every round trip of a store operation is made by a        *)
(* component whose probe passed.                                           *)

C24_ProbeGuardsComponent ==
    [][ (hist' # hist) =>
          LET e == hist'[Len(hist')]
              p == e.proc
          IN  /\ e.op = "construct" =>
                    /\ pc[p] = "new"
                    /\ e.res.pings = 1
                    /\ e.res.kind \in {"ok", "DataStoreError"}
                    /\ e.res.kind = "ok" => e.res.value = TRUE /\ pc'[p] = "idle"
                    /\ e.res.kind = "DataStoreError" =>
                          /\ e.res.cause = ConnectionError
                          /\ pc'[p] = "new"
              /\ e.op \in StoreOps => pc[p] # "new" ]_vars

C24_Witness ==
    /\ Took(3)
    /\ Ago(2).op = "construct" /\ Ago(2).res.kind = "DataStoreError"
    /\ Ago(1).op = "construct" /\ Ago(1).res.kind = "ok"
    /\ Ago(1).proc = Ago(2).proc
    /\ Ago(0).op = "get" /\ Ago(0).proc = Ago(1).proc

(* C26: load_config asks the cache for the latest document with pull=True  *)
(* and force=False.  When the cache path returns a document, the section   *)
(* of the lambda is taken from it and AppConfig is not called by           *)
(* load_config itself.  When the cache path raises CacheMissError,         *)
(* CachePutError or DataStoreError, load_config calls AppConfig once and   *)
(* returns the section of the document it gets, or raises the error of     *)
(* that call.                                                              *)

CachePathErrors == {"CacheMissError", "CachePutError", "DataStoreError"}

C26_Case == Took(1) /\ Ago(0).op = "load_config"

C26_CacheFirstThenRemote ==
    /\ (Took(1) /\ Ago(0).op = "load_config_latest") =>
            Ago(0).res.args = [method |-> "get", version |-> "latest", pull |-> TRUE,
                               force |-> FALSE]
    /\ (Took(1) /\ Ago(0).op = "load_config_cache" /\ Ago(0).res.kind \in CachePathErrors) =>
            /\ pc[Ago(0).proc] = "load_config_fallback"
            /\ Ago(0).res.remote_calls = 0
    /\ (C26_Case /\ Ago(0).res.source = "cache") =>
            /\ Ago(0).res.remote_calls = 0
            /\ Ago(0).res.kind \notin CachePathErrors
            /\ Ago(0).res.kind = "ok" =>
                  \E v \in Versions :
                      Ago(0).res.value = lambda_configuration(Document(v), Ago(0).res.lambda_name)
    /\ (C26_Case /\ Ago(0).res.source = "remote") =>
            /\ Ago(0).res.remote_calls = 1
            /\ Ago(0).res.cache_error # Nil
            /\ Ago(0).res.kind = "ok" =>
                  Ago(0).res.value
                      = lambda_configuration(Document(deployed), Ago(0).res.lambda_name)
            /\ Ago(0).res.kind # "ok" =>
                  \E raised \in FetchErrors : Ago(0).res.kind = raised.kind

C26_Witness ==
    /\ Took(3)
    /\ Ago(2).op = "load_config_latest" /\ Ago(2).res.kind = "pending"
    /\ Ago(1).op = "load_config_cache" /\ Ago(1).res.kind = "CachePutError"
    /\ C26_Case
    /\ Ago(0).res.source = "remote"
    /\ Ago(0).res.cache_error = Some("CachePutError")
    /\ Ago(0).res.kind = "ok"


----------------------------------------------------------------------------
(* The lambda handlers.  A request is served by one lambda, which makes    *)
(* its DAO calls one round trip at a time while other lambdas serve other  *)
(* requests; every DAO call it completes is entered in the log of the      *)
(* request, and the response carries the log.                              *)

DEFAULT_LINK_GENERATION_QUOTA == 20

\* utils.shortener.generate_shortcode(counter, salt='my_secret', length=7):
\* base 62 of (counter * 1315423911 + xxh64('my_secret')) mod 62^7, tabulated
\* for the counters the stores below can reach
generate_shortcode(counter) ==
    CASE counter = 1 -> "Gjy3htt"
      [] counter = 2 -> "GkZ4Fka"
      [] counter = 3 -> "Gmq53aR"
      [] counter = 4 -> "GnR7q1y"
      [] counter = 5 -> "Gpi8OSf"
      [] counter = 42 -> "HgqX3jU"
      [] counter = 43 -> "HhRZraB"
      [] counter = 44 -> "Hji0O1i"
      [] counter = 45 -> "HkJ2cRZ"
      [] counter = 46 -> "Hma3AIG"

\* the body of a shorten request: no target_url, or one
Bodies == {Nil, Some(CHOOSE g \in Targets : TRUE)}

Logged(call, kind, value) == [call |-> call, kind |-> kind, value |-> value]

\* the handler returns: the response and the log of the request
Respond(p, handler, status, request, calls) ==
    /\ hist' = Push(hist, Call(handler, p, "",
                               [status |-> status, request |-> request,
                                calls |-> calls]))
    /\ pc' = [pc EXCEPT ![p] = "idle"]
    /\ loc' = [loc EXCEPT ![p] = NoLocals]

\* the handler goes on to its next round trip
GoOn(p, step, request, calls) ==
    /\ pc' = [pc EXCEPT ![p] = step]
    /\ loc' = [loc EXCEPT ![p] = [request |-> request, calls |-> calls]]
    /\ hist' = hist

(* shorten_url *)

\* variant: the limit itself is still allowed
quota_reached_above(user_quota) == user_quota > DEFAULT_LINK_GENERATION_QUOTA

\* shorten_url/app.py line 157: if user_quota >= DEFAULT_LINK_GENERATION_QUOTA
quota_reached(user_quota) == user_quota >= DEFAULT_LINK_GENERATION_QUOTA

\* lines 157-171: 429 when the quota is reached, 400 without a target_url
shorten_after_quota(p, request, calls, user_quota) ==
    IF quota_reached(user_quota)
    THEN Respond(p, "shorten_url", 429, request, calls)
    ELSE IF request.body = Nil
    THEN Respond(p, "shorten_url", 400, request, calls)
    ELSE GoOn(p, "shorten_count", request, calls)

\* lines 155-156: user_dao.quota(user_id), the INCRBY 0
shorten_quota_incrby(p, user_id, body) ==
    /\ pc[p] = "idle"
    /\ nops < MaxOps
    /\ nops' = nops + 1
    /\ LET key == user_quota_key(user_id, now)
           d2 == RedisIncrBy(db, key, 0)
           monthly_quota == d2[key].val
           request == [user_id |-> user_id, body |-> body, user_quota_key |-> key,
                       user_quota |-> monthly_quota]
       IN  /\ db' = d2
           /\ IF quota_initializes(monthly_quota)
              THEN GoOn(p, "shorten_quota_expire", request, <<>>)
              ELSE shorten_after_quota(p, request,
                                       <<Logged("quota", "ok", Some(monthly_quota))>>,
                                       monthly_quota)
    /\ UNCHANGED <<now, nticks, lastHit, urlBatch, deployed>>

\* lines 155-156, continued: the EXPIRE of quota(), which then returns
shorten_quota_expire(p) ==
    /\ pc[p] = "shorten_quota_expire"
    /\ LET l == loc[p]
           r == l.request
       IN  /\ db' = RedisExpire(db, r.user_quota_key, ONE_MONTH_SECONDS, now)
           /\ shorten_after_quota(p, r, <<Logged("quota", "ok", Some(r.user_quota))>>,
                                  r.user_quota)
    /\ UNCHANGED <<now, nops, nticks, lastHit, urlBatch, deployed>>

\* lines 174-176: counter = short_url_dao.count(increment=True), the shortcode
shorten_count(p) ==
    /\ pc[p] = "shorten_count"
    /\ LET l == loc[p]
           d2 == count_incr(db)
           counter == d2[counter_key].val
           shortcode == generate_shortcode(counter)
       IN  /\ db' = d2
           /\ GoOn(p, "shorten_insert_exists",
                   [shortcode |-> shortcode, target |-> l.request.body[1],
                    link_url_key |-> link_url_key(shortcode),
                    link_hits_key |-> link_hits_key(shortcode, now)] @@ l.request,
                   Append(l.calls, Logged("count", "ok", Some(counter))))
    /\ UNCHANGED <<now, nops, nticks, lastHit, urlBatch, deployed>>

\* lines 180-192: short_url_dao.insert, the EXISTS; 409 when the link exists
shorten_insert_exists(p) ==
    /\ pc[p] = "shorten_insert_exists"
    /\ LET l == loc[p]
           r == l.request
       IN  IF insert_already_exists(db, r.link_url_key, r.link_hits_key)
           THEN Respond(p, "shorten_url", 409, r,
                        Append(l.calls, Logged("insert", "ShortURLAlreadyExistsError", Nil)))
           ELSE GoOn(p, "shorten_insert_pipeline", r, l.calls)
    /\ UNCHANGED <<now, db, nops, nticks, lastHit, urlBatch, deployed>>

\* lines 180-181, continued: the batch of insert
shorten_insert_pipeline(p) ==
    /\ pc[p] = "shorten_insert_pipeline"
    /\ LET l == loc[p]
       IN  /\ db' = insert_batch(db, l.request, now)
           /\ GoOn(p, "shorten_increment_exists", l.request,
                   Append(l.calls, Logged("insert", "ok", Nil)))
    /\ UNCHANGED <<now, nops, nticks, lastHit, urlBatch, deployed>>

\* line 194: new_user_quota = user_dao.increment_quota(user_id), the EXISTS;
\* UserDoesNotExistError is not caught, guarantee_500_response answers 500
shorten_increment_exists(p) ==
    /\ pc[p] = "shorten_increment_exists"
    /\ LET l == loc[p]
       IN  IF increment_quota_missing(db, l.request.user_quota_key)
           THEN Respond(p, "shorten_url", 500, l.request,
                        Append(l.calls,
                               Logged("increment_quota", "UserDoesNotExistError", Nil)))
           ELSE GoOn(p, "shorten_increment_incr", l.request, l.calls)
    /\ UNCHANGED <<now, db, nops, nticks, lastHit, urlBatch, deployed>>

\* lines 194-205: the INCR of increment_quota, then the 200
shorten_increment_incr(p) ==
    /\ pc[p] = "shorten_increment_incr"
    /\ LET l == loc[p]
           key == l.request.user_quota_key
           d2 == RedisIncrBy(db, key, 1)
       IN  /\ db' = d2
           /\ Respond(p, "shorten_url", 200, l.request,
                      Append(l.calls, Logged("increment_quota", "ok", Some(d2[key].val))))
    /\ UNCHANGED <<now, nops, nticks, lastHit, urlBatch, deployed>>

(* redirect_url *)

\* variant: one hit more than the quota is let through
hits_exceeded_below_minus_one(leftover_hits) == leftover_hits < -1

\* redirect_url/app.py line 147: if leftover_hits < 0
hits_exceeded(leftover_hits) == leftover_hits < 0

\* lines 134-141: short_url_dao.hit(shortcode), the EXISTS; 400 when absent
redirect_hit_exists(p, shortcode) ==
    /\ pc[p] = "idle"
    /\ nops < MaxOps
    /\ nops' = nops + 1
    /\ LET url_key == link_url_key(shortcode)
           hits_key == link_hits_key(shortcode, now)
           request == [shortcode |-> shortcode, link_url_key |-> url_key,
                       link_hits_key |-> hits_key]
       IN  IF hit_not_found(db, url_key, hits_key)
           THEN Respond(p, "redirect_url", 400, request,
                        <<Logged("hit", "ShortURLNotFoundError", Nil)>>)
           ELSE GoOn(p, "redirect_hit_pipeline", request, <<>>)
    /\ UNCHANGED <<now, db, nticks, lastHit, urlBatch, deployed>>

\* lines 134-162: the batch of hit; 429 when the quota of the link is used up
redirect_hit_pipeline(p) ==
    /\ pc[p] = "redirect_hit_pipeline"
    /\ LET l == loc[p]
           d2 == hit_batch(db, l.request.link_hits_key, now)
           leftover_hits == d2[l.request.link_hits_key].val
           calls == <<Logged("hit", "ok", Some(leftover_hits))>>
       IN  /\ db' = d2
           /\ IF hits_exceeded(leftover_hits)
              THEN Respond(p, "redirect_url", 429, l.request, calls)
              ELSE GoOn(p, "redirect_get", l.request, calls)
    /\ UNCHANGED <<now, nops, nticks, lastHit, urlBatch, deployed>>

\* lines 164-185: short_url_dao.get(shortcode); 400 when the link is gone
\* by now, else 302 to the target
redirect_get(p) ==
    /\ pc[p] = "redirect_get"
    /\ LET l == loc[p]
           original_url == RedisGet(db, l.request.link_url_key)
           hits == RedisGet(db, l.request.link_hits_key)
       IN  IF get_not_found(original_url, hits)
           THEN Respond(p, "redirect_url", 400, l.request,
                        Append(l.calls, Logged("get", "ShortURLNotFoundError", Nil)))
           ELSE Respond(p, "redirect_url", 302,
                        [location |-> original_url[1]] @@ l.request,
                        Append(l.calls, Logged("get", "ok", Nil)))
    /\ UNCHANGED <<now, db, nops, nticks, lastHit, urlBatch, deployed>>

\* the shortcodes clients ask to be redirected from
RequestedShortcodes == Shortcodes \cup {generate_shortcode(1)}

\* Initial stores: nothing stored; or a link with one hit left this month,
\* 41 links counted and a user one link short of the limit; or that user
\* and the link of counter 1 alive in a store that has lost its counter
InitHandlerStores(t) ==
    LET sc == CHOOSE s \in Shortcodes : TRUE
        tg == CHOOSE g \in Targets : TRUE
        user == CHOOSE u \in Users : TRUE
        link(d, code, hits) ==
            Put(Put(d, link_url_key(code), tg, t - 1 + ONE_YEAR_SECONDS),
                link_hits_key(code, t), hits, beginning_of_next_month(t))
    IN  { EmptyStore,
          Put(Put(link(EmptyStore, sc, 1), counter_key, 41, NoExpiry),
              user_quota_key(user, t), DEFAULT_LINK_GENERATION_QUOTA - 1,
              t - 1 + ONE_MONTH_SECONDS),
          Put(link(EmptyStore, generate_shortcode(1), DEFAULT_LINK_HITS_QUOTA),
              user_quota_key(user, t), DEFAULT_LINK_GENERATION_QUOTA - 1,
              t - 1 + ONE_MONTH_SECONDS) }

InitHandlers ==
    /\ now = MonthStart(2025, 10) + 14 * SecondsPerDay
    /\ db \in InitHandlerStores(now)
    /\ lastHit = [k \in {} |-> 0]
    /\ urlBatch = EmptyGhost
    /\ pc = [p \in Procs |-> "idle"]
    /\ loc = [p \in Procs |-> NoLocals]
    /\ nops = 0
    /\ nticks = 0
    /\ hist = <<>>
    /\ deployed = 1

NextHandlers ==
    \/ \E p \in Procs, user_id \in Users, body \in Bodies :
            shorten_quota_incrby(p, user_id, body)
    \/ \E p \in Procs : shorten_quota_expire(p)
    \/ \E p \in Procs : shorten_count(p)
    \/ \E p \in Procs : shorten_insert_exists(p)
    \/ \E p \in Procs : shorten_insert_pipeline(p)
    \/ \E p \in Procs : shorten_increment_exists(p)
    \/ \E p \in Procs : shorten_increment_incr(p)
    \/ \E p \in Procs, shortcode \in RequestedShortcodes :
            redirect_hit_exists(p, shortcode)
    \/ \E p \in Procs : redirect_hit_pipeline(p)
    \/ \E p \in Procs : redirect_get(p)

SpecHandlers == InitHandlers /\ [][NextHandlers]_vars

----------------------------------------------------------------------------
(* Reading the responses *)

\* the DAO calls of a request, in the order they were made
CallNames(calls) == [i \in 1..Len(calls) |-> calls[i].call]

Responded(k, handler) == Ago(k).op = handler

(* C27: the shorten handler calls quota() first.  When the quota read is   *)
(* at or above DEFAULT_LINK_GENERATION_QUOTA it answers 429 and has called *)
(* nothing else (no count, insert or increment_quota); it answers 429 in   *)
(* no other case.  A 200 has called quota, count(increment=True), insert   *)
(* and increment_quota, once each and in that order, all successful.  When *)
(* insert raises ShortURLAlreadyExistsError the answer is 409 and          *)
(* increment_quota was not called.                                         *)

C27_Case == Took(1) /\ Responded(0, "shorten_url")

C27_ShortenCallOrder ==
    C27_Case =>
        LET r == Ago(0).res
            calls == r.calls
            names == CallNames(calls)
        IN  /\ Len(calls) >= 1
            /\ calls[1] = Logged("quota", "ok", Some(r.request.user_quota))
            /\ r.request.user_quota >= DEFAULT_LINK_GENERATION_QUOTA
                  => r.status = 429 /\ names = <<"quota">>
            /\ r.status = 429
                  => r.request.user_quota >= DEFAULT_LINK_GENERATION_QUOTA
            /\ r.status = 200 =>
                  /\ names = <<"quota", "count", "insert", "increment_quota">>
                  /\ \A i \in 1..4 : calls[i].kind = "ok"
                  /\ r.request.shortcode = generate_shortcode(calls[2].value[1])
            /\ (\E i \in 1..Len(calls) :
                    calls[i].call = "insert" /\ calls[i].kind = "ShortURLAlreadyExistsError")
                  => r.status = 409 /\ names = <<"quota", "count", "insert">>
            /\ r.status = 409 =>
                  /\ names = <<"quota", "count", "insert">>
                  /\ calls[3].kind = "ShortURLAlreadyExistsError"

C27_Witness ==
    /\ Took(3)
    /\ \A k \in 0..2 : Responded(k, "shorten_url")
    /\ Ago(2).res.status = 409
    /\ Ago(1).res.status = 200
    /\ Ago(0).res.status = 429
    /\ Ago(0).res.request.user_quota = DEFAULT_LINK_GENERATION_QUOTA

(* C28: the redirect handler calls hit() first and get() only after a      *)
(* hit() that returned a value of 0 or more.  A 302 has called hit, then   *)
(* get, both successful, the hit returning 0 or more; a hit that returned  *)
(* a negative value is answered 429 and a hit that raised                  *)
(* ShortURLNotFoundError 400, both without a call of get.                  *)

C28_Case == Took(1) /\ Responded(0, "redirect_url")

C28_HitBeforeGet ==
    C28_Case =>
        LET r == Ago(0).res
            calls == r.calls
            names == CallNames(calls)
        IN  /\ Len(calls) >= 1
            /\ calls[1].call = "hit"
            /\ names \in {<<"hit">>, <<"hit", "get">>}
            /\ names = <<"hit", "get">> =>
                  calls[1].kind = "ok" /\ calls[1].value[1] >= 0
            /\ r.status = 302 =>
                  /\ names = <<"hit", "get">>
                  /\ calls[1].kind = "ok" /\ calls[1].value[1] >= 0
                  /\ calls[2].kind = "ok"
            /\ (calls[1].kind = "ok" /\ calls[1].value[1] < 0)
                  => r.status = 429 /\ names = <<"hit">>
            /\ calls[1].kind = "ShortURLNotFoundError"
                  => r.status = 400 /\ names = <<"hit">>

C28_Witness ==
    /\ Took(3)
    /\ \A k \in 0..2 : Responded(k, "redirect_url")
    /\ Ago(2).res.status = 302 /\ Ago(2).res.calls[1].value = Some(0)
    /\ Ago(1).res.status = 429 /\ Ago(1).res.calls[1].value = Some(-1)
    /\ Ago(0).res.status = 400 /\ Ago(0).res.calls[1].kind = "ShortURLNotFoundError"

----------------------------------------------------------------------------
(* Claims C31-C33: the monthly hit quota of a link.                        *)

\* the step just taken, seen from an action formula
C31_Last(h) == h[Len(h)]

C31_Stepped(op) == hist' # hist /\ C31_Last(hist').op = op

C32_NewMonthStartsFresh ==
    /\ ( /\ Took(2)
         /\ Ago(1).op = "tick"
         /\ this_month(Ago(1).at) # this_month(Ago(0).at)
         /\ HitBatch(0) )
       => Ago(0).res.leftover_hits = DEFAULT_LINK_HITS_QUOTA - 1
    /\ (Took(1) /\ HitBatch(0))
       => Ago(0).hits_key = link_hits_key(Ago(0).shortcode, Ago(0).at)

C33_InsertBatch(k) == Ago(k).op = "insert_pipeline"

\* insert's batch found the hits key it names in the keyspace
C33_Case ==
    /\ Took(1)
    /\ C33_InsertBatch(0)
    /\ RedisExists(Ago(0).before, Ago(0).hits_key)

\* C33: insert never overwrites an existing hits key: a batch that finds
\* the key leaves its value and its expiry as they were, also when the url
\* key was absent, and a get that follows reports the old remaining quota.
C33_InsertKeepsHitsKey ==
    /\ C33_Case =>
        /\ RedisExists(db, Ago(0).hits_key)
        /\ db[Ago(0).hits_key] = Ago(0).before[Ago(0).hits_key]
    /\ ( /\ Took(2)
         /\ C33_InsertBatch(1)
         /\ RedisExists(Ago(1).before, Ago(1).hits_key)
         /\ Ago(0).op = "get"
         /\ Ago(0).shortcode = Ago(1).shortcode
         /\ Ago(0).hits_key = Ago(1).hits_key )
       => /\ Ago(0).res.kind = "ok"
          /\ Ago(0).res.hits = Some(Ago(1).before[Ago(1).hits_key].val)

\* the url key had expired, the hits key of the month was partly used, the
\* link was inserted again and get reports the used quota
C33_Witness ==
    /\ Took(2)
    /\ C33_InsertBatch(1)
    /\ ~RedisExists(Ago(1).before, link_url_key(Ago(1).shortcode))
    /\ RedisExists(Ago(1).before, Ago(1).hits_key)
    /\ Ago(1).hits_key = link_hits_key(Ago(1).shortcode, Ago(1).at)
    /\ Ago(1).before[Ago(1).hits_key].val < DEFAULT_LINK_HITS_QUOTA
    /\ Ago(0).op = "get"
    /\ Ago(0).shortcode = Ago(1).shortcode
    /\ Ago(0).res.kind = "ok"
    /\ Ago(0).res.hits = Some(Ago(1).before[Ago(1).hits_key].val)
    /\ Ago(0).res.hits # Some(DEFAULT_LINK_HITS_QUOTA)

----------------------------------------------------------------------------
(* Claims C34, C35: the lifetime of a user quota key.                      *)

\* the user quota keys of a keyspace of the counters
C34_QuotaKeys(d) == DOMAIN d \ {counter_key}

\* C34: whenever no quota() call stands between its INCRBY 0 and its EXPIRE,
\* every user quota key in the keyspace carries an expiry.
C34_EveryQuotaKeyExpires ==
    (\A p \in Procs : pc[p] # "quota_expire")
        => \A key \in C34_QuotaKeys(db) : db[key].exp # NoExpiry

\* C35: increment_quota never creates a user quota key: when the key is
\* absent at the moment the increment executes, it is absent afterwards and
\* the call has raised UserDoesNotExistError.
C35_IncrementNeverCreates ==
    ( /\ Took(1)
      /\ Ago(0).op = "increment_quota_incr"
      /\ ~RedisExists(Ago(0).before, Ago(0).key) )
    => /\ ~RedisExists(db, Ago(0).key)
       /\ Ago(0).res.kind = "UserDoesNotExistError"

----------------------------------------------------------------------------
(* Claim C36: the link-generation limit under concurrent requests.         *)

\* C36: the monthly counter of a user never exceeds the link-generation
\* limit, and no shorten request writes a link while the counter of its user
\* stands at the limit.
C36_QuotaNeverExceeded ==
    /\ \A user_id \in Users :
          RedisExists(db, user_quota_key(user_id, now))
              => db[user_quota_key(user_id, now)].val <= DEFAULT_LINK_GENERATION_QUOTA
    /\ \A p \in Procs :
          pc[p] = "shorten_insert_pipeline"
              => \A user_id \in Users :
                    RedisExists(db, user_quota_key(user_id, now))
                        => db[user_quota_key(user_id, now)].val
                              < DEFAULT_LINK_GENERATION_QUOTA

----------------------------------------------------------------------------
(* Claims C37-C40: the configuration cache under concurrency and failure.  *)

\* C37: while the latest:metadata key lives, the version it records never
\* decreases: no warm-up replaces a newer latest document with an older one.
C37_LatestNeverDecreases ==
    [][ ( /\ RedisExists(db, appconfig_latest_metadata_key)
          /\ RedisExists(db', appconfig_latest_metadata_key) )
        => LatestVersion(db') >= LatestVersion(db) ]_vars

C39_Case ==
    /\ Took(1)
    /\ \/ Ago(0).op = "cache_get" /\ Ago(0).res.kind = "CacheMissError"
       \/ Failed(0) /\ Ago(0).res.call = "cache_get"
       \/ Ago(0).op = "fetch_error"

\* C39 as stated: a ConfigCache operation that ends in CacheMissError,
\* CachePutError, DataStoreError or a fetcher error leaves every cache key
\* as it found it.
C39_FailedCallChangesNothing ==
    C39_Case => db = Ago(0).before

\* the keys of the warm-up batch behind the key a call reads
C39_BatchKeys(d, key) ==
    IF key \in LatestKeys
    THEN LatestKeys \cup {appconfig_version_key(LatestVersion(d)),
                          appconfig_metadata_key(LatestVersion(d))}
    ELSE LET v == CHOOSE n \in Versions :
                      key \in {appconfig_version_key(n), appconfig_metadata_key(n)}
         IN  {appconfig_version_key(v), appconfig_metadata_key(v)}

\* C39, amended: a call that ends in CacheMissError, DataStoreError or a
\* fetcher error leaves every cache key as it found it.  A call that ends in
\* CachePutError leaves the keyspace either as it found it or with the whole
\* batch applied, every key of the batch written with a fresh ttl and no
\* other key touched: never with only a subset of the batch.
C39_FailedWarmUpAllOrNothing ==
    C39_Case =>
        /\ Ago(0).res.kind # "CachePutError" => db = Ago(0).before
        /\ Ago(0).res.kind = "CachePutError" =>
              /\ db \in {Ago(0).before, Ago(0).res.applied}
              /\ LET applied == Ago(0).res.applied
                     keys == C39_BatchKeys(applied, Ago(0).key)
                 IN  /\ keys \subseteq DOMAIN applied
                     /\ \A k \in keys : applied[k].exp = Ago(0).at + COOL_TTL
                     /\ \A k \in DOMAIN applied \ keys :
                            k \in DOMAIN Ago(0).before /\ applied[k] = Ago(0).before[k]
                     /\ DOMAIN Ago(0).before \subseteq DOMAIN applied

\* get("latest") on an empty cache ended in CachePutError and the four keys
\* of its batch are in the cache
C39_Witness ==
    /\ C39_Case
    /\ Ago(0).res.kind = "CachePutError"
    /\ Ago(0).key \in LatestKeys
    /\ \A k \in DOMAIN Ago(0).before : ~(k \in C39_BatchKeys(db, Ago(0).key))
    /\ db = Ago(0).res.applied
    /\ C39_BatchKeys(db, Ago(0).key) \subseteq DOMAIN db
    /\ Cardinality(C39_BatchKeys(db, Ago(0).key)) = 4

\* the keys a warm-up step writes
C40_WarmUpKeys(e) ==
    {appconfig_version_key(e.res.fetched.resolved_version),
     appconfig_metadata_key(e.res.fetched.resolved_version)}
        \cup (IF warm_up_latest(e.res.args.version) THEN LatestKeys ELSE {})

\* the two keys of version x
C40_KeysOf(x) == {cache_key("get", x), cache_key("metadata", x)}

\* step Ago(k) is the warm-up that ends a get(x) made with pull or force
C40_GetWarmed(k) ==
    /\ Ago(k).op = "warm_up"
    /\ Ago(k).res.args.method = "get"
    /\ Ago(k).res.args.pull \/ Ago(k).res.args.force

\* step Ago(0) is a call with pull=False, force=False for the version of Ago(k)
C40_ReadsBack(k) ==
    /\ Ago(0).op = "cache_get"
    /\ ~Ago(0).res.args.pull /\ ~Ago(0).res.args.force
    /\ Ago(0).res.args.version = Ago(k).res.args.version

\* step Ago(1) neither warms a key of x nor lets one expire
C40_LeavesAlone(x) ==
    \/ Ago(1).op = "cache_get"
    \/ Ago(1).op = "warm_up" /\ C40_WarmUpKeys(Ago(1)) \cap C40_KeysOf(x) = {}
    \/ Ago(1).op = "tick" /\ C40_KeysOf(x) \subseteq DOMAIN Ago(0).before

C40_Case ==
    \/ Took(2) /\ C40_GetWarmed(1) /\ C40_ReadsBack(1)
    \/ Took(3) /\ C40_GetWarmed(2) /\ C40_ReadsBack(2) /\ C40_LeavesAlone(Ago(2).res.args.version)

\* the warm-up C40_Case speaks of
C40_WarmUp == IF Took(2) /\ C40_GetWarmed(1) /\ C40_ReadsBack(1) THEN Ago(1) ELSE Ago(2)

\* C40: after get(x, pull=True) or get(x, force=True) returned document d
\* through a warm-up, with no warm-up of x and no expiry since, get(x,
\* pull=False) returns d and metadata(x, pull=False) returns the metadata that
\* warm-up wrote, both without a call of the fetcher and without a write.
C40_ReadBackAfterWarmUp ==
    C40_Case =>
        /\ Ago(0).res.kind = "ok"
        /\ Ago(0).res.fetches = 0
        /\ db = Ago(0).before
        /\ Ago(0).res.args.method = "get" =>
              /\ Ago(0).res.value = C40_WarmUp.res.value
              /\ Ago(0).res.value = C40_WarmUp.res.fetched.document
        /\ Ago(0).res.args.method = "metadata" =>
              Ago(0).res.value = C40_WarmUp.res.fetched.metadata

\* version 2 is deployed, get("1", force=True) replaced a cached version 1
\* and metadata("1", pull=False) returns the metadata of that fetch
C40_Witness ==
    /\ Took(2) /\ C40_GetWarmed(1) /\ C40_ReadsBack(1)
    /\ Ago(1).res.args.version # "latest"
    /\ Ago(1).res.args.force
    /\ Ago(0).res.args.method = "metadata"
    /\ Ago(0).res.kind = "ok"
    /\ Ago(0).res.value = Ago(1).res.fetched.metadata
    /\ Ago(0).res.value.fetched_at = Ago(1).at

====
